---- MODULE Spec2Model ----
(***************************************************************************)
(* Model of ydb-query-metrics: per-query aggregation of metric statistics  *)
(* (query_statistics.py), row filtering (query_filter.py) and the          *)
(* process_files pipeline (query_processor.py).                            *)
(*                                                                         *)
(* Floats are modelled as exact rationals [n, d] in lowest terms; d = 0    *)
(* stands for float('inf').  A DataFrame is a record [cols, rows]: cols is  *)
(* the set of column labels and every row is a function from cols to cells.*)
(* A cell is [k, v, s]: k = "num" (a number v), "nan" (null / empty cell)   *)
(* or "str" (a string, the sequence of characters s).                      *)
(***************************************************************************)
EXTENDS Integers, Sequences, FiniteSets, TLC

VARIABLES input, df, unique_queries, idx, pc

\* process_files: its arguments, its locals, the console, and its position
VARIABLES file_paths, like_filters, not_like_filters, regex_filters,
          all_data, filtered_data, query_stats, console, errors, file_idx, stage

aggVars == <<input, df, unique_queries, idx, pc>>

procVars == <<file_paths, like_filters, not_like_filters, regex_filters,
              all_data, filtered_data, query_stats, console, errors, file_idx, stage>>

\* file_format.py: the table handed to the loader, the format hint, and the
\* loader's locals, result, exception and position
VARIABLES sample_df, format_hint, file_format, result_df, load_error, load_pc

\* formatting.py: the call of an output function, the target directory, the
\* console, the loop index, the exception and the position
VARIABLES out_call, disk, echoed, out_i, out_error, out_pc

\* format_number_with_suffix: its argument, its locals, its result and position
VARIABLES num_input, value, suffix_index, num_result, num_pc

\* cli.py main: its parameters, its locals, what it echoed to stderr, the
\* calls of process_files it made, and its position
VARIABLES files, output, output_dir, cli_overwrite, expanded_files, output_mode, output_path,
          cli_echo, called, cli_pc

\* calculate_statistics over a batch of rows, over a permutation of it and
\* over its two parts
VARIABLES batch, perm, cut, of_whole, of_permuted, of_left, of_right, fold_pc

\* load_tsv_file: the encoding the byte-order mark gives, the encodings under
\* which detect_and_load_file returns, the attempts made, and the outcome
\* detect_and_load_file: the file as a table of text cells
VARIABLES bom, loads_under, attempts, fallback_i, returned, raised, enc_pc, raw, headers_present

cliVars == <<files, output, output_dir, cli_overwrite, expanded_files, output_mode, output_path,
             cli_echo, called, cli_pc>>

foldVars == <<batch, perm, cut, of_whole, of_permuted, of_left, of_right, fold_pc>>

encVars == <<bom, loads_under, attempts, fallback_i, returned, raised, enc_pc>>

fileVars == <<raw, headers_present>>

moreVars == <<cliVars, foldVars, encVars, fileVars>>

fmtVars == <<sample_df, format_hint, file_format, result_df, load_error, load_pc>>

outVars == <<out_call, disk, echoed, out_i, out_error, out_pc>>

numVars == <<num_input, value, suffix_index, num_result, num_pc>>

restVars == <<fmtVars, outVars, numVars, moreVars>>

vars == <<input, df, unique_queries, idx, pc,
          file_paths, like_filters, not_like_filters, regex_filters,
          all_data, filtered_data, query_stats, console, errors, file_idx, stage,
          sample_df, format_hint, file_format, result_df, load_error, load_pc,
          out_call, disk, echoed, out_i, out_error, out_pc,
          num_input, value, suffix_index, num_result, num_pc,
          files, output, output_dir, cli_overwrite, expanded_files, output_mode, output_path,
          cli_echo, called, cli_pc,
          batch, perm, cut, of_whole, of_permuted, of_left, of_right, fold_pc,
          bom, loads_under, attempts, fallback_i, returned, raised, enc_pc, raw, headers_present>>

-----------------------------------------------------------------------------
(* Bounds *)

MaxRows == 2

NProfiles == 4

MaxFiles == 2

MaxFileRows == 2

MaxRegexLen == 3

MaxPatterns == 2

\* rows of a table handed to the loader
MaxLoadRows == 2

\* rows of the tables whose statistics are written out
MaxOutRows == 2

\* greatest power of 1000 in the numbers given to format_number_with_suffix
MaxExp == 6

\* rows of a batch aggregated whole, permuted and in two parts
MaxBatch == 3

-----------------------------------------------------------------------------
(* Exact arithmetic standing in for Python floats *)

Abs(x) == IF x < 0 THEN -x ELSE x

RECURSIVE GCD(_, _)
GCD(a, b) == IF b = 0 THEN a ELSE GCD(b, a % b)

\* n / d as a float, d > 0
Rat(n, d) ==
    LET g == GCD(Abs(n), d)
    IN  [n |-> n \div g, d |-> d \div g]

Inf == [n |-> 1, d |-> 0]

Zero == [n |-> 0, d |-> 1]

RLeq(a, b) == a.n * b.d <= b.n * a.d

RLt(a, b) == a.n * b.d < b.n * a.d

RMin(a, b) == IF RLt(b, a) THEN b ELSE a

RMax(a, b) == IF RLt(a, b) THEN b ELSE a

\* a / b for finite a and b > 0
RDiv(a, b) == Rat(a.n * b.d, a.d * b.n)

-----------------------------------------------------------------------------
(* Cells, columns and rows *)

Num(v) == [k |-> "num", v |-> v, s |-> <<>>]

NaN == [k |-> "nan", v |-> 0, s |-> <<>>]

Str(s) == [k |-> "str", v |-> 0, s |-> s]

\* pd.isna
IsNa(c) == c.k = "nan"

\* f"Min{metric_name}", f"Max{metric_name}", f"Sum{metric_name}"
Col(prefix, name) == <<prefix, name>>

CountCol == Col("", "Count")

QueryTextCol == Col("", "QueryText")

MetricNames == <<"Duration", "CPUTime", "ReadRows", "ReadBytes", "UpdateRows", "UpdateBytes">>

Metrics == {MetricNames[j] : j \in 1..Len(MetricNames)}

\* QueryStatistics.__init__: 1_000_000 for the two time metrics, default 1.0 otherwise
Scale(m) == IF m \in {"Duration", "CPUTime"} THEN 1000000 ELSE 1

numeric_columns ==
    {Col(p, m) : p \in {"Min", "Max", "Sum"}, m \in Metrics} \cup {CountCol}

AllCols == numeric_columns \cup {QueryTextCol}

-----------------------------------------------------------------------------
(* Strings as sequences of one-character strings *)

Whitespace == {" ", "\t"}

\* str.lstrip
RECURSIVE LStrip(_)
LStrip(s) == IF s # <<>> /\ Head(s) \in Whitespace THEN LStrip(Tail(s)) ELSE s

\* str.rstrip
RECURSIVE RStrip(_)
RStrip(s) ==
    IF s # <<>> /\ s[Len(s)] \in Whitespace THEN RStrip(SubSeq(s, 1, Len(s) - 1)) ELSE s

\* str.strip
Strip(s) == RStrip(LStrip(s))

-----------------------------------------------------------------------------
(* MetricStats *)

\* an accumulator that starts with a sum of 1
NewMetricStats_SumOne == [min |-> Inf, max |-> Zero, sum |-> 1, total_count |-> 0]

\* MetricStats.__init__
NewMetricStats == [min |-> Inf, max |-> Zero, sum |-> 0, total_count |-> 0]

\* float(row['Count']) if not pd.isna(row['Count']) else 1.0, ValueError / TypeError -> 1.0
CountValue(row) ==
    LET c == row[CountCol]
    IN  IF IsNa(c) THEN 1
        ELSE IF c.k = "num" THEN c.v
        ELSE 1

\* avg without the scale divisor
avg_NoScale(ms, m) ==
    IF ms.total_count > 0 THEN Rat(ms.sum, ms.total_count) ELSE Zero

\* MetricStats.avg
avg(ms, m) ==
    IF ms.total_count > 0 THEN Rat(ms.sum, ms.total_count * Scale(m)) ELSE Zero

\* the guard "column in row and not pd.isna(row[column])"
Present(row, c) == c \in DOMAIN row /\ ~IsNa(row[c])

\* update that stores the row's Min<X> instead of the smaller of the two
Update_MinOverwrite(ms, row, m) ==
    LET mn == Col("Min", m)
        mx == Col("Max", m)
        sm == Col("Sum", m)
    IN  [min |-> IF Present(row, mn) THEN Rat(row[mn].v, Scale(m)) ELSE ms.min,
         max |-> IF Present(row, mx) THEN RMax(ms.max, Rat(row[mx].v, Scale(m))) ELSE ms.max,
         sum |-> IF Present(row, sm) THEN ms.sum + row[sm].v ELSE ms.sum,
         total_count |-> ms.total_count + CountValue(row)]

\* update that leaves Min<X> unscaled
Update_MinUnscaled(ms, row, m) ==
    LET mn == Col("Min", m)
        mx == Col("Max", m)
        sm == Col("Sum", m)
    IN  [min |-> IF Present(row, mn) THEN RMin(ms.min, Rat(row[mn].v, 1)) ELSE ms.min,
         max |-> IF Present(row, mx) THEN RMax(ms.max, Rat(row[mx].v, Scale(m))) ELSE ms.max,
         sum |-> IF Present(row, sm) THEN ms.sum + row[sm].v ELSE ms.sum,
         total_count |-> ms.total_count + CountValue(row)]

\* MetricStats.update, for the metric m.  The metric cells it reads are
\* numbers or null: calculate_statistics has coerced every numeric column.
Update(ms, row, m) ==
    LET mn == Col("Min", m)
        mx == Col("Max", m)
        sm == Col("Sum", m)
    IN  [min |-> IF Present(row, mn) THEN RMin(ms.min, Rat(row[mn].v, Scale(m))) ELSE ms.min,
         max |-> IF Present(row, mx) THEN RMax(ms.max, Rat(row[mx].v, Scale(m))) ELSE ms.max,
         sum |-> IF Present(row, sm) THEN ms.sum + row[sm].v ELSE ms.sum,
         total_count |-> ms.total_count + CountValue(row)]

-----------------------------------------------------------------------------
(* QueryStatistics *)

\* QueryStatistics.__init__
NewQueryStatistics(query_text) ==
    [query_text |-> query_text,
     row_count |-> 0,
     total_count |-> 0,
     metrics |-> [m \in Metrics |-> NewMetricStats]]

duration(qs) == qs.metrics["Duration"]

cpu_time(qs) == qs.metrics["CPUTime"]

read_rows(qs) == qs.metrics["ReadRows"]

read_bytes(qs) == qs.metrics["ReadBytes"]

\* rows_per_second that divides the bytes read, not the rows read
rows_per_second_Bytes(qs) ==
    LET d == avg(duration(qs), "Duration")
    IN  IF RLt(Zero, d) THEN RDiv(avg(read_bytes(qs), "ReadBytes"), d) ELSE Zero

\* QueryStatistics.rows_per_second
rows_per_second(qs) ==
    LET d == avg(duration(qs), "Duration")
    IN  IF RLt(Zero, d) THEN RDiv(avg(read_rows(qs), "ReadRows"), d) ELSE Zero

\* QueryStatistics.bytes_per_row
bytes_per_row(qs) ==
    LET r == avg(read_rows(qs), "ReadRows")
    IN  IF RLt(Zero, r) THEN RDiv(avg(read_bytes(qs), "ReadBytes"), r) ELSE Zero

\* update_from_row that counts rows instead of adding the Count weight
update_from_row_CountsRows(qs, row) ==
    [query_text |-> qs.query_text,
     row_count |-> qs.row_count + 1,
     total_count |-> qs.total_count + 1,
     metrics |-> [m \in Metrics |-> Update(qs.metrics[m], row, m)]]

\* QueryStatistics.update_from_row
update_from_row(qs, row) ==
    [query_text |-> qs.query_text,
     row_count |-> qs.row_count + 1,
     total_count |-> qs.total_count + CountValue(row),
     metrics |-> [m \in Metrics |-> Update(qs.metrics[m], row, m)]]

\* update_from_row when row['Count'] raises KeyError: only row_count has moved
update_from_row_raised(qs) == [qs EXCEPT !.row_count = @ + 1]

-----------------------------------------------------------------------------
(* calculate_statistics *)

\* pd.to_numeric(errors='coerce').fillna(0) on one cell
ToNumericFillna(c) == IF c.k = "num" THEN c ELSE Num(0)

\* the loop over numeric_columns at the head of calculate_statistics
CoerceNumeric(d) ==
    [cols |-> d.cols,
     rows |-> [r \in 1..Len(d.rows) |->
                [c \in d.cols |->
                    IF c \in numeric_columns THEN ToNumericFillna(d.rows[r][c])
                    ELSE d.rows[r][c]]]]

\* the skip test without strip()
SkipRow_NoStrip(row) == IsNa(row[QueryTextCol]) \/ row[QueryTextCol].s = <<>>

\* pd.isna(row['QueryText']) or str(row['QueryText']).strip() == ''
SkipRow(row) == IsNa(row[QueryTextCol]) \/ Strip(row[QueryTextCol].s) = <<>>

\* position of query_text in the dict (insertion order), 0 when absent
Find(uq, query_text) ==
    IF \E k \in 1..Len(uq) : uq[k].query_text = query_text
    THEN CHOOSE k \in 1..Len(uq) : uq[k].query_text = query_text
    ELSE 0

\* "if query_text not in unique_queries: unique_queries[query_text] = QueryStatistics(...)"
Ensure(uq, query_text) ==
    IF Find(uq, query_text) = 0 THEN Append(uq, NewQueryStatistics(query_text)) ELSE uq

\* one pass of the loop body for a row that is not skipped and does not raise
Feed(uq, row) ==
    LET q == row[QueryTextCol].s
        e == Ensure(uq, q)
        k == Find(e, q)
    IN  [e EXCEPT ![k] = update_from_row(e[k], row)]

\* the whole loop over rows from..Len(rows), for a table that has Count and QueryText
RECURSIVE Loop(_, _, _)
Loop(uq, rows, from) ==
    IF from > Len(rows) THEN uq
    ELSE Loop(IF SkipRow(rows[from]) THEN uq ELSE Feed(uq, rows[from]), rows, from + 1)

\* calculate_statistics as a function of a table that has Count and QueryText
calculate_statistics(d) == Loop(<<>>, CoerceNumeric(d).rows, 1)

-----------------------------------------------------------------------------
(* query_filter.py *)

\* str.upper on one character
UpperChar(c) == IF c = "a" THEN "A" ELSE IF c = "b" THEN "B" ELSE c

\* str.upper
Upper(s) == [i \in 1..Len(s) |-> UpperChar(s[i])]

\* "pat in text"
Contains(text, pat) ==
    \E i \in 0..(Len(text) - Len(pat)) : SubSeq(text, i + 1, i + Len(pat)) = pat

\* str.contains with case=True
StrContains_CaseSensitive(text, p) == Contains(text, p)

\* Series.str.contains(p, case=False, regex=False) on one value
StrContains(text, p) == Contains(Upper(text), Upper(p))

\* re.compile on the tokens literal, ".", "[" and "]": the sequence of items
\* of the pattern, and ok = FALSE when a "[" is never closed (re.error)
RECURSIVE ReCompileFrom(_, _)
ReCompileFrom(p, i) ==
    IF i > Len(p) THEN [ok |-> TRUE, items |-> <<>>]
    ELSE IF p[i] = "["
    THEN LET close == {j \in (i + 2)..Len(p) : p[j] = "]"}
         IN  IF close = {} THEN [ok |-> FALSE, items |-> <<>>]
             ELSE LET j == CHOOSE x \in close : \A y \in close : x <= y
                      rest == ReCompileFrom(p, j + 1)
                  IN  [ok |-> rest.ok,
                       items |-> <<[any |-> FALSE, set |-> {p[k] : k \in (i + 1)..(j - 1)}]>>
                                 \o rest.items]
    ELSE LET rest == ReCompileFrom(p, i + 1)
         IN  [ok |-> rest.ok,
              items |-> <<[any |-> p[i] = ".", set |-> {p[i]}]>> \o rest.items]

ReCompile(p) == ReCompileFrom(p, 1)

\* one item of a compiled pattern against one character, under re.IGNORECASE
ItemMatches(item, c) == item.any \/ \E x \in item.set : UpperChar(x) = UpperChar(c)

\* pattern.search(text) is not None
ReSearch(items, text) ==
    \E i \in 0..(Len(text) - Len(items)) :
        \A k \in 1..Len(items) : ItemMatches(items[k], text[i + k])

\* QueryFilterBuilder.with_like_filters
with_like_filters(filters, patterns) ==
    filters \o [i \in 1..Len(patterns) |-> [kind |-> "like", p |-> patterns[i]]]

\* QueryFilterBuilder.with_not_like_filters
with_not_like_filters(filters, patterns) ==
    filters \o [i \in 1..Len(patterns) |-> [kind |-> "not_like", p |-> patterns[i]]]

\* QueryFilterBuilder.with_regex_filters
with_regex_filters(filters, patterns) ==
    filters \o [i \in 1..Len(patterns) |-> [kind |-> "regex", p |-> patterns[i]]]

\* the lambda registered for one pattern, on the query text of one row
ApplyFilter(f, text) ==
    CASE f.kind = "like" -> StrContains(text, f.p)
      [] f.kind = "not_like" -> ~StrContains(text, f.p)
      [] f.kind = "regex" -> ~ReSearch(ReCompile(f.p).items, text)

\* only the first registered lambda is ever evaluated
FilterRaises_FirstOnly(filters) ==
    filters # <<>> /\ filters[1].kind = "regex" /\ ~ReCompile(filters[1].p).ok

\* a registered lambda raises re.error when its pattern does not compile
FilterRaises(filters) ==
    \E i \in 1..Len(filters) : filters[i].kind = "regex" /\ ~ReCompile(filters[i].p).ok

\* the filter_function returned by QueryFilterBuilder.build, when no lambda
\* raises; every row carries a string in QueryText
filter_function(filters, d) ==
    IF filters = <<>> THEN d
    ELSE [cols |-> d.cols,
          rows |-> SelectSeq(d.rows, LAMBDA row :
                      \A i \in 1..Len(filters) : ApplyFilter(filters[i], row[QueryTextCol].s))]

\* the builder chain of filter_queries
BuildFilters(like, not_like, regex) ==
    with_regex_filters(with_not_like_filters(with_like_filters(<<>>, like), not_like), regex)

\* filter_queries, when it does not raise
filter_queries(d, like, not_like, regex) ==
    filter_function(BuildFilters(like, not_like, regex), d)

-----------------------------------------------------------------------------
(* Input tables *)

A == <<"a">>

B == <<"b">>

Bad == <<"x">>

TripleList ==
    << <<Num(1), Num(2), Num(3)>>,
       <<Num(0), Num(0), Num(0)>>,
       <<Num(2), Num(2), Num(2)>>,
       <<Num(-1), Num(-1), Num(-1)>>,
       <<Num(2), Num(1), Num(3)>>,
       <<NaN, Str(Bad), NaN>> >>

MetricIndex(m) == CHOOSE j \in 1..Len(MetricNames) : MetricNames[j] = m

\* the Min/Max/Sum cells of metric m in a row of profile p
Triple(p, m) == TripleList[((p + MetricIndex(m) - 2) % Len(TripleList)) + 1]

PrefixIndex(pre) == CASE pre = "Min" -> 1 [] pre = "Max" -> 2 [] pre = "Sum" -> 3

MkRow(qt, cnt, p) ==
    [c \in AllCols |->
        IF c = QueryTextCol THEN qt
        ELSE IF c = CountCol THEN cnt
        ELSE Triple(p, c[2])[PrefixIndex(c[1])]]

RowSet ==
    {MkRow(Str(q), Num(n), p) : q \in {A, B}, n \in {1, 2}, p \in 1..NProfiles}
    \cup {MkRow(Str(A), c, 1) : c \in {NaN, Str(Bad)}}
    \cup {MkRow(q, Num(1), 1) : q \in {NaN, Str(<<>>), Str(<<" ">>), Str(<<" ", "a">>)}}

ColVariants ==
    {AllCols,
     AllCols \ {CountCol},
     AllCols \ {Col("Min", "Duration"), Col("Max", "CPUTime"), Col("Sum", "ReadRows")}}

Restrict(row, cols) == [c \in cols |-> row[c]]

RowSeqs == UNION {[1..n -> RowSet] : n \in 0..MaxRows}

DataFrames ==
    {[cols |-> cs, rows |-> [r \in 1..Len(rs) |-> Restrict(rs[r], cs)]] :
        cs \in ColVariants, rs \in RowSeqs}

-----------------------------------------------------------------------------
(* calculate_statistics, one step at a time *)

\* pd.DataFrame()
EmptyFrame == [cols |-> {}, rows |-> <<>>]

\* process_files is not running
ProcIdle ==
    /\ file_paths = <<>>
    /\ like_filters = <<>>
    /\ not_like_filters = <<>>
    /\ regex_filters = <<>>
    /\ all_data = EmptyFrame
    /\ filtered_data = EmptyFrame
    /\ query_stats = <<>>
    /\ console = <<>>
    /\ errors = <<>>
    /\ file_idx = 0
    /\ stage = "idle"

\* the loader is not running
FmtIdle ==
    /\ sample_df = EmptyFrame
    /\ format_hint = "None"
    /\ file_format = "None"
    /\ result_df = EmptyFrame
    /\ load_error = "None"
    /\ load_pc = "idle"

\* no output function is running
OutIdle ==
    /\ out_call = [fn |-> "idle"]
    /\ disk = [exists |-> FALSE, entries |-> <<>>]
    /\ echoed = <<>>
    /\ out_i = 0
    /\ out_error = "None"
    /\ out_pc = "idle"

\* format_number_with_suffix is not running
NumIdle ==
    /\ num_input = [r |-> Zero, e |-> 0]
    /\ value = [r |-> Zero, e |-> 0]
    /\ suffix_index = 0
    /\ num_result = <<>>
    /\ num_pc = "idle"

\* an optional string: None, or a string
None == [some |-> FALSE, s |-> <<>>]

Some(s) == [some |-> TRUE, s |-> s]

\* main is not running
CliIdle ==
    /\ files = <<>>
    /\ output = None
    /\ output_dir = None
    /\ cli_overwrite = FALSE
    /\ expanded_files = <<>>
    /\ output_mode = "None"
    /\ output_path = None
    /\ cli_echo = <<>>
    /\ called = <<>>
    /\ cli_pc = "idle"

\* no batch is being aggregated
FoldIdle ==
    /\ batch = <<>>
    /\ perm = <<>>
    /\ cut = 0
    /\ of_whole = <<>>
    /\ of_permuted = <<>>
    /\ of_left = <<>>
    /\ of_right = <<>>
    /\ fold_pc = "idle"

\* load_tsv_file is not running
EncIdle ==
    /\ bom = "utf-8"
    /\ loads_under = {}
    /\ attempts = <<>>
    /\ fallback_i = 0
    /\ returned = "None"
    /\ raised = "None"
    /\ enc_pc = "idle"

\* detect_and_load_file is not running
FileIdle ==
    /\ raw = EmptyFrame
    /\ headers_present = FALSE

MoreIdle == CliIdle /\ FoldIdle /\ EncIdle /\ FileIdle

RestIdle == FmtIdle /\ OutIdle /\ NumIdle /\ MoreIdle

Init ==
    /\ input \in DataFrames
    /\ df = input
    /\ unique_queries = <<>>
    /\ idx = 0
    /\ pc = "start"
    /\ ProcIdle
    /\ RestIdle

\* query_statistics.py 212-214
Coerce ==
    /\ pc = "start"
    /\ df' = CoerceNumeric(df)
    /\ idx' = 1
    /\ pc' = "iterate"
    /\ UNCHANGED <<input, unique_queries, procVars, restVars>>

\* query_statistics.py 221-222
Skip ==
    /\ pc = "iterate"
    /\ idx <= Len(df.rows)
    /\ SkipRow(df.rows[idx])
    /\ idx' = idx + 1
    /\ UNCHANGED <<input, df, unique_queries, pc, procVars, restVars>>

\* query_statistics.py 224-230
UpdateFromRow ==
    /\ pc = "iterate"
    /\ idx <= Len(df.rows)
    /\ ~SkipRow(df.rows[idx])
    /\ CountCol \in df.cols
    /\ unique_queries' = Feed(unique_queries, df.rows[idx])
    /\ idx' = idx + 1
    /\ UNCHANGED <<input, df, pc, procVars, restVars>>

\* query_statistics.py 176: row['Count'] on a table without a Count column
RaiseKeyError ==
    /\ pc = "iterate"
    /\ idx <= Len(df.rows)
    /\ ~SkipRow(df.rows[idx])
    /\ CountCol \notin df.cols
    /\ LET q == df.rows[idx][QueryTextCol].s
           e == Ensure(unique_queries, q)
           k == Find(e, q)
       IN  unique_queries' = [e EXCEPT ![k] = update_from_row_raised(e[k])]
    /\ pc' = "raised"
    /\ UNCHANGED <<input, df, idx, procVars, restVars>>

\* query_statistics.py 232
Return ==
    /\ pc = "iterate"
    /\ idx > Len(df.rows)
    /\ pc' = "done"
    /\ UNCHANGED <<input, df, unique_queries, idx, procVars, restVars>>

Next == Coerce \/ Skip \/ UpdateFromRow \/ RaiseKeyError \/ Return

Spec == Init /\ [][Next]_vars

-----------------------------------------------------------------------------
(* formatting.py: ordering of the output *)

\* get_sort_key
get_sort_key(stats, sort_by) ==
    CASE sort_by = "MaxDuration" -> duration(stats).max
      [] sort_by = "AvgDuration" -> avg(duration(stats), "Duration")
      [] sort_by = "MaxCPUTime" -> cpu_time(stats).max
      [] sort_by = "AvgCPUTime" -> avg(cpu_time(stats), "CPUTime")
      [] OTHER -> duration(stats).max

\* one insertion of the stable descending sort: x goes behind every element whose key is >= its own
RECURSIVE InsertDesc(_, _, _)
InsertDesc(sorted, x, sort_by) ==
    IF sorted = <<>> THEN <<x>>
    ELSE IF RLt(get_sort_key(Head(sorted), sort_by), get_sort_key(x, sort_by))
    THEN <<x>> \o sorted
    ELSE <<Head(sorted)>> \o InsertDesc(Tail(sorted), x, sort_by)

\* sorted(query_stats.items(), key=lambda x: get_sort_key(x[1], sort_by), reverse=True)
RECURSIVE SortedQueries(_, _)
SortedQueries(qstats, sort_by) ==
    IF qstats = <<>> THEN <<>>
    ELSE InsertDesc(SortedQueries(SubSeq(qstats, 1, Len(qstats) - 1), sort_by),
                    qstats[Len(qstats)], sort_by)

\* the call of sorted() in print_queries_to_console (208-212),
\* write_multiple_sql_files (264-268) and write_single_sql_file (310-314)
sorted_queries_Unsorted(qstats, sort_by) == qstats

sorted_queries(qstats, sort_by) == SortedQueries(qstats, sort_by)

\* print_queries_to_console: the query texts of the blocks echoed, in order
print_queries_to_console(qstats, sort_by) ==
    LET sq == SortedQueries(qstats, sort_by)
    IN  [i \in 1..Len(sq) |-> sq[i].query_text]

-----------------------------------------------------------------------------
(* Inputs of process_files *)

TextPool == {<<"a">>, <<"B">>, <<"a", "B">>}

LikePool == {<<"A">>, <<"b">>, <<"a", "B">>}

RegexTokens == {"A", ".", "[", "]"}

RegexPatterns(n) == UNION {[1..k -> RegexTokens] : k \in 0..n}

PatLists(pool, n) == UNION {[1..k -> pool] : k \in 0..n}

\* the tables of at most MaxFileRows rows with query texts from texts
Tables(texts) ==
    {[cols |-> AllCols, rows |-> rs] :
        rs \in UNION {[1..n -> {MkRow(Str(t), Num(1), Len(t)) : t \in texts}] :
                        n \in 0..MaxFileRows}}

\* what load_tsv_file yields for a file: a table, or an exception
Loaded(table) == [ok |-> TRUE, table |-> table]

LoadFails == [ok |-> FALSE, table |-> EmptyFrame]

FilterArgs ==
    {<<l, n, <<>>>> : l \in PatLists(LikePool, MaxPatterns), n \in PatLists(LikePool, 1)}
    \cup {<<l, n, <<>>>> : l \in PatLists(LikePool, 1), n \in PatLists(LikePool, MaxPatterns)}
    \cup {<<<<>>, <<>>, <<r>>>> : r \in RegexPatterns(MaxRegexLen)}
    \cup {<<l, n, r>> : l \in PatLists({<<"A">>}, 1), n \in PatLists({<<"b">>}, 1),
                        r \in PatLists({<<"A">>, <<".">>, <<"[">>}, MaxPatterns)}

\* the arguments of process_files: many file lists under a few filters, and
\* one file under many filters
ProcInputs ==
    {<<fs, fa>> :
        fs \in UNION {[1..n -> {LoadFails} \cup {Loaded(t) : t \in Tables({<<"a">>, <<"B">>})}] :
                        n \in 1..MaxFiles},
        fa \in {<<<<>>, <<>>, <<>>>>, <<<< <<"A">> >>, <<>>, <<>>>>, <<<<>>, <<>>, << <<"[">> >>>>}}
    \cup {<< <<Loaded(t)>>, fa >> : t \in Tables(TextPool), fa \in FilterArgs}

\* DataFrame.empty: some axis has length 0
Empty_Never(d) == FALSE

Empty(d) == d.rows = <<>> \/ d.cols = {}

\* pd.concat([all_data, df], ignore_index=True) for tables with the same columns
Concat_Replace(a, b) == b

Concat(a, b) == [cols |-> a.cols \cup b.cols, rows |-> a.rows \o b.rows]

-----------------------------------------------------------------------------
(* process_files, one step at a time *)

AggIdle ==
    /\ input = EmptyFrame
    /\ df = EmptyFrame
    /\ unique_queries = <<>>
    /\ idx = 0
    /\ pc = "idle"

\* process_files(file_paths, like_filters, not_like_filters, regex_filters,
\* to_stdout=True) with sort_by at its default 'MaxDuration'
InitProc ==
    /\ \E inp \in ProcInputs :
        /\ file_paths = inp[1]
        /\ like_filters = inp[2][1]
        /\ not_like_filters = inp[2][2]
        /\ regex_filters = inp[2][3]
    /\ all_data = EmptyFrame
    /\ filtered_data = EmptyFrame
    /\ query_stats = <<>>
    /\ console = <<>>
    /\ errors = <<>>
    /\ file_idx = 1
    /\ stage = "load"
    /\ AggIdle
    /\ RestIdle

\* query_processor.py 41-44: one file loaded and appended
LoadFile ==
    /\ stage = "load"
    /\ file_idx <= Len(file_paths)
    /\ file_paths[file_idx].ok
    /\ all_data' = Concat(all_data, file_paths[file_idx].table)
    /\ file_idx' = file_idx + 1
    /\ UNCHANGED <<file_paths, like_filters, not_like_filters, regex_filters,
                   filtered_data, query_stats, console, errors, stage, aggVars, restVars>>

\* query_processor.py 45-46: load_tsv_file raised, the error is echoed with the path
LoadFileError ==
    /\ stage = "load"
    /\ file_idx <= Len(file_paths)
    /\ ~file_paths[file_idx].ok
    /\ errors' = Append(errors, file_idx)
    /\ file_idx' = file_idx + 1
    /\ UNCHANGED <<file_paths, like_filters, not_like_filters, regex_filters,
                   all_data, filtered_data, query_stats, console, stage, aggVars, restVars>>

\* query_processor.py 48-50
NoData ==
    /\ stage = "load"
    /\ file_idx > Len(file_paths)
    /\ Empty(all_data)
    /\ stage' = "no_data"
    /\ UNCHANGED <<file_paths, like_filters, not_like_filters, regex_filters,
                   all_data, filtered_data, query_stats, console, errors, file_idx, aggVars, restVars>>

\* query_processor.py 53: filter_queries returns
FilterQueries ==
    /\ stage = "load"
    /\ file_idx > Len(file_paths)
    /\ ~Empty(all_data)
    /\ ~FilterRaises(BuildFilters(like_filters, not_like_filters, regex_filters))
    /\ filtered_data' = filter_queries(all_data, like_filters, not_like_filters, regex_filters)
    /\ stage' = "filtered"
    /\ UNCHANGED <<file_paths, like_filters, not_like_filters, regex_filters,
                   all_data, query_stats, console, errors, file_idx, aggVars, restVars>>

\* query_processor.py 53: filter_queries raises re.error, which nothing catches
FilterError ==
    /\ stage = "load"
    /\ file_idx > Len(file_paths)
    /\ ~Empty(all_data)
    /\ FilterRaises(BuildFilters(like_filters, not_like_filters, regex_filters))
    /\ stage' = "raised"
    /\ UNCHANGED <<file_paths, like_filters, not_like_filters, regex_filters,
                   all_data, filtered_data, query_stats, console, errors, file_idx, aggVars, restVars>>

\* query_processor.py 55-57
NoMatches ==
    /\ stage = "filtered"
    /\ Empty(filtered_data)
    /\ stage' = "no_match"
    /\ UNCHANGED <<file_paths, like_filters, not_like_filters, regex_filters,
                   all_data, filtered_data, query_stats, console, errors, file_idx, aggVars, restVars>>

\* query_processor.py 60
CalculateStatistics ==
    /\ stage = "filtered"
    /\ ~Empty(filtered_data)
    /\ query_stats' = calculate_statistics(filtered_data)
    /\ stage' = "stats"
    /\ UNCHANGED <<file_paths, like_filters, not_like_filters, regex_filters,
                   all_data, filtered_data, console, errors, file_idx, aggVars, restVars>>

\* query_processor.py 66-68
PrintQueriesToConsole ==
    /\ stage = "stats"
    /\ console' = print_queries_to_console(query_stats, "MaxDuration")
    /\ stage' = "done"
    /\ UNCHANGED <<file_paths, like_filters, not_like_filters, regex_filters,
                   all_data, filtered_data, query_stats, errors, file_idx, aggVars, restVars>>

NextProc ==
    \/ LoadFile
    \/ LoadFileError
    \/ NoData
    \/ FilterQueries
    \/ FilterError
    \/ NoMatches
    \/ CalculateStatistics
    \/ PrintQueriesToConsole

SpecProc == InitProc /\ [][NextProc]_vars

-----------------------------------------------------------------------------
(* file_format.py: detect_file_format and transform_top_queries_to_query_metrics *)

MinDurationText == <<"M", "i", "n", "D", "u", "r", "a", "t", "i", "o", "n">>

MaxDurationText == <<"M", "a", "x", "D", "u", "r", "a", "t", "i", "o", "n">>

CPUTimeText == <<"C", "P", "U", "T", "i", "m", "e">>

DurationText == <<"D", "u", "r", "a", "t", "i", "o", "n">>

CPUTimeCol == Col("", "CPUTime")

DurationCol == Col("", "Duration")

RankCol == Col("", "Rank")

IntervalEndCol == Col("", "IntervalEnd")

\* the label pandas gives column i of a table read with header=None; the
\* labels of one table are all integers or all strings
IntLabel(i) == Col("#", ToString(i))

IsStrLabel(c) == c[1] # "#"

DigitChar(d) == <<"0", "1", "2", "3", "4", "5", "6", "7", "8", "9">>[d + 1]

\* str(n) of a non-negative integer
RECURSIVE Digits(_)
Digits(n) == IF n < 10 THEN <<DigitChar(n)>> ELSE Digits(n \div 10) \o <<DigitChar(n % 10)>>

\* str(val) of a cell that is not null
CellStr(c) ==
    IF c.k = "str" THEN c.s
    ELSE IF c.v < 0 THEN <<"-">> \o Digits(-c.v) ELSE Digits(c.v)

\* [str(val).strip() for val in df.iloc[0].values if not pd.isna(val)]
first_row_values(d) ==
    {Strip(CellStr(d.rows[1][c])) : c \in {x \in d.cols : ~IsNa(d.rows[1][x])}}

\* detect_file_format: the format returned or the exception raised
detect_file_format(d) ==
    LET str_labels == d.cols # {} /\ \A c \in d.cols : IsStrLabel(c)
    IN  IF str_labels /\ Col("Min", "Duration") \in d.cols /\ Col("Max", "Duration") \in d.cols
        THEN "query_metrics"
        ELSE IF str_labels /\ CPUTimeCol \in d.cols /\ DurationCol \in d.cols
        THEN "top_queries"
        ELSE IF d.rows = <<>>
        THEN "IndexError"
        ELSE IF MinDurationText \in first_row_values(d) /\ MaxDurationText \in first_row_values(d)
        THEN "query_metrics"
        ELSE IF CPUTimeText \in first_row_values(d) /\ DurationText \in first_row_values(d)
        THEN "top_queries"
        ELSE IF Cardinality(d.cols) = 29
        THEN "top_queries"
        ELSE IF Cardinality(d.cols) = 28
        THEN "query_metrics"
        ELSE "ValueError"

\* file_format.py 88-89: a first row whose CPUTime is the string 'CPUTime' is dropped
DropHeaderRow(d) ==
    IF d.rows # <<>> /\ CPUTimeCol \in d.cols /\ d.rows[1][CPUTimeCol] = Str(CPUTimeText)
    THEN [d EXCEPT !.rows = Tail(@)]
    ELSE d

\* file_format.py 92-93
top_numeric_columns ==
    {Col("", n) : n \in {"CPUTime", "Duration", "ReadRows", "ReadBytes", "UpdateRows",
                         "UpdateBytes", "DeleteRows", "RequestUnits", "Rank"}}

\* file_format.py 95-97
CoerceTop(d) ==
    [d EXCEPT !.rows = [r \in 1..Len(d.rows) |->
        [c \in d.cols |-> IF c \in top_numeric_columns THEN ToNumericFillna(d.rows[r][c])
                          ELSE d.rows[r][c]]]]

\* the source columns in the order in which lines 100-175 assign from them
TransformOrder ==
    <<"IntervalEnd", "CPUTime", "Duration", "ReadRows", "ReadBytes", "UpdateRows",
      "UpdateBytes", "QueryText", "Rank">>

OrderIndex(n) == CHOOSE j \in 1..Len(TransformOrder) : TransformOrder[j] = n

\* the first assignment of a Series to result_df, 0 when every assignment is
\* of a scalar.  result_df starts as pd.DataFrame(): a scalar assigned before
\* that Series makes a column of no rows, which the Series assignment then
\* fills with NaN for every row of its index; a scalar assigned later is
\* broadcast to every row
FirstSeries(d) ==
    IF \A j \in 1..Len(TransformOrder) : Col("", TransformOrder[j]) \notin d.cols THEN 0
    ELSE CHOOSE j \in 1..Len(TransformOrder) :
            /\ Col("", TransformOrder[j]) \in d.cols
            /\ \A k \in 1..(j - 1) : Col("", TransformOrder[k]) \notin d.cols

\* the columns of the frame transform_top_queries_to_query_metrics returns
TransformedCols ==
    {IntervalEndCol, QueryTextCol, RankCol, CountCol}
    \cup {Col(p, m) : p \in {"Min", "Max", "Sum"}, m \in Metrics}

\* the cell of result column c built from the row: the source column is
\* named n and the scalar assigned in its absence is default
TransformedCell(d, row, n, default) ==
    IF Col("", n) \in d.cols THEN row[Col("", n)]
    ELSE IF OrderIndex(n) < FirstSeries(d) THEN NaN
    ELSE default

TransformedRow(d, row) ==
    [c \in TransformedCols |->
        CASE c = IntervalEndCol -> TransformedCell(d, row, "IntervalEnd", NaN)
          [] c = QueryTextCol -> TransformedCell(d, row, "QueryText", Str(<<>>))
          [] c = RankCol -> TransformedCell(d, row, "Rank", Num(0))
          [] c = CountCol -> Num(1)
          [] OTHER -> TransformedCell(d, row, c[2], Num(0))]

\* transform_top_queries_to_query_metrics
transform_top_queries_to_query_metrics(d) ==
    LET src == CoerceTop(DropHeaderRow(d))
    IN  [cols |-> TransformedCols,
         rows |-> IF FirstSeries(src) = 0 THEN <<>>
                  ELSE [r \in 1..Len(src.rows) |-> TransformedRow(src, src.rows[r])]]

-----------------------------------------------------------------------------
(* Inputs of the loader *)

\* the cells a column of an input table may hold, the usual one first
Choices(c) ==
    CASE c = CPUTimeCol -> <<Num(3), Str(CPUTimeText), Str(Bad)>>
      [] c = DurationCol -> <<Num(5), Str(DurationText), NaN>>
      [] c = Col("Min", "Duration") -> <<Num(1), Str(MinDurationText)>>
      [] c = Col("Max", "Duration") -> <<Num(2), Str(<<" ">> \o MaxDurationText)>>
      [] c = Col("", "ReadRows") -> <<Num(4), Str(Bad)>>
      [] c = QueryTextCol -> <<Str(A), Str(CPUTimeText)>>
      [] c = RankCol -> <<Num(1), Str(Bad)>>
      [] c = IntervalEndCol -> <<Str(<<"t">>)>>
      [] c \in {IntLabel(1), Col("x", "1")} ->
            <<Num(7), Str(MinDurationText), Str(CPUTimeText), NaN>>
      [] c \in {IntLabel(2), Col("x", "2")} ->
            <<Num(7), Str(MaxDurationText), Str(DurationText \o <<" ">>), Str(Bad)>>
      [] OTHER -> <<Num(7)>>

\* the rows over the columns cs, every cell among the choices of its column
FirstRows(cs) ==
    LET several == {c \in cs : Len(Choices(c)) > 1}
    IN  {[c \in cs |-> IF c \in several THEN Choices(c)[ix[c]] ELSE Choices(c)[1]] :
            ix \in {f \in [several -> 1..4] : \A c \in several : f[c] <= Len(Choices(c))}}

\* the sets of string labels of the input tables
LabelSets ==
    {{Col("Min", "Duration"), Col("Max", "Duration"), QueryTextCol},
     {CPUTimeCol, DurationCol, QueryTextCol},
     {CPUTimeCol, DurationCol, Col("Min", "Duration"), Col("Max", "Duration")},
     {CPUTimeCol, DurationCol, Col("x", "1"), Col("x", "2")},
     {Col("Min", "Duration"), QueryTextCol},
     {DurationCol, QueryTextCol, RankCol},
     {IntervalEndCol, DurationCol, QueryTextCol},
     {CPUTimeCol, Col("", "ReadRows"), QueryTextCol, RankCol},
     {QueryTextCol},
     {Col("x", "1"), Col("x", "2")},
     {Col("x", ToString(i)) : i \in 1..28},
     {Col("x", ToString(i)) : i \in 1..29}}

\* the column counts of the tables read without a header
ColCounts == {0, 2, 28, 29, 30}

\* a row of the column names again, as in a file joined from two exports
HeaderAgain(cs) ==
    [c \in cs |-> IF Len(Choices(c)) > 1 THEN Choices(c)[2] ELSE Choices(c)[1]]

\* the tables over the columns cs: any first row, then rows of usual cells,
\* of the cells after them, or of the column names
TablesOver(cs) ==
    {[cols |-> cs, rows |-> <<>>]}
    \cup {[cols |-> cs, rows |-> <<first>> \o rest] :
            first \in FirstRows(cs),
            rest \in UNION {[1..n -> {[c \in cs |-> Choices(c)[1]],
                                      [c \in cs |-> Choices(c)[Len(Choices(c))]],
                                      HeaderAgain(cs)}] :
                            n \in 0..(MaxLoadRows - 1)}}

\* the calls: every table without a hint, the tables with string labels with one
LoadInputs ==
    {<<t, "None">> :
        t \in UNION ({TablesOver(cs) : cs \in LabelSets}
                     \cup {TablesOver({IntLabel(i) : i \in 1..n}) : n \in ColCounts})}
    \cup {<<t, h>> : t \in UNION {TablesOver(cs) : cs \in LabelSets},
                     h \in {"top_queries", "query_metrics"}}

-----------------------------------------------------------------------------
(* The loader, one step at a time: the format is detected from the table    *)
(* (or taken from the hint) and a top_queries table is transformed, as in   *)
(* detect_and_load_file.  The table is the one the caller holds; reading    *)
(* the file a second time with its header row (lines 252-261) is not part   *)
(* of this specification.                                                   *)

InitLoad ==
    /\ \E inp \in LoadInputs :
        /\ sample_df = inp[1]
        /\ format_hint = inp[2]
    /\ file_format = "None"
    /\ result_df = EmptyFrame
    /\ load_error = "None"
    /\ load_pc = "start"
    /\ AggIdle
    /\ ProcIdle
    /\ OutIdle
    /\ NumIdle
    /\ MoreIdle

\* file_format.py 249-250: detect_file_format returns
DetectFileFormat ==
    /\ load_pc = "start"
    /\ format_hint = "None"
    /\ detect_file_format(sample_df) \in {"query_metrics", "top_queries"}
    /\ file_format' = detect_file_format(sample_df)
    /\ load_pc' = "detected"
    /\ UNCHANGED <<sample_df, format_hint, result_df, load_error,
                   aggVars, procVars, outVars, numVars, moreVars>>

\* file_format.py 250: detect_file_format raises
DetectRaises ==
    /\ load_pc = "start"
    /\ format_hint = "None"
    /\ detect_file_format(sample_df) \in {"ValueError", "IndexError"}
    /\ load_error' = detect_file_format(sample_df)
    /\ load_pc' = "raised"
    /\ UNCHANGED <<sample_df, format_hint, file_format, result_df,
                   aggVars, procVars, outVars, numVars, moreVars>>

\* file_format.py 249: a format hint stands for the detection
UseFormatHint ==
    /\ load_pc = "start"
    /\ format_hint # "None"
    /\ file_format' = format_hint
    /\ load_pc' = "detected"
    /\ UNCHANGED <<sample_df, format_hint, result_df, load_error,
                   aggVars, procVars, outVars, numVars, moreVars>>

\* file_format.py 264-267
TransformTopQueries ==
    /\ load_pc = "detected"
    /\ file_format = "top_queries"
    /\ result_df' = transform_top_queries_to_query_metrics(sample_df)
    /\ load_pc' = "done"
    /\ UNCHANGED <<sample_df, format_hint, file_format, load_error,
                   aggVars, procVars, outVars, numVars, moreVars>>

\* file_format.py 264, 267: a query_metrics table is returned as it is
ReturnQueryMetrics ==
    /\ load_pc = "detected"
    /\ file_format = "query_metrics"
    /\ result_df' = sample_df
    /\ load_pc' = "done"
    /\ UNCHANGED <<sample_df, format_hint, file_format, load_error,
                   aggVars, procVars, outVars, numVars, moreVars>>

NextLoad ==
    \/ DetectFileFormat
    \/ DetectRaises
    \/ UseFormatHint
    \/ TransformTopQueries
    \/ ReturnQueryMetrics

SpecLoad == InitLoad /\ [][NextLoad]_vars

-----------------------------------------------------------------------------
(* formatting.py: rendering of a query and the three ways of writing *)

\* round(n / d) to the nearest integer, ties to even, for d > 0
RoundHalfEven(n, d) ==
    LET q == n \div d
        r == n % d
    IN  IF 2 * r < d THEN q
        ELSE IF 2 * r > d THEN q + 1
        ELSE IF q % 2 = 0 THEN q ELSE q + 1

\* f"{x:.6f}": the number of millionths printed
Fixed6(x) == RoundHalfEven(x.n * 1000000, x.d)

\* format_query_with_stats, lines 63-73: no header line, or the one header line
Header(stats, query_number, sort_by) ==
    IF query_number = <<>> THEN <<>>
    ELSE CASE sort_by = "MaxDuration" ->
                <<[number |-> query_number[1], metric |-> "MaxDuration",
                   seconds |-> Fixed6(duration(stats).max)]>>
           [] sort_by = "AvgDuration" ->
                <<[number |-> query_number[1], metric |-> "AvgDuration",
                   seconds |-> Fixed6(avg(duration(stats), "Duration"))]>>
           [] sort_by = "MaxCPUTime" ->
                <<[number |-> query_number[1], metric |-> "MaxCPUTime",
                   seconds |-> Fixed6(cpu_time(stats).max)]>>
           [] sort_by = "AvgCPUTime" ->
                <<[number |-> query_number[1], metric |-> "AvgCPUTime",
                   seconds |-> Fixed6(avg(cpu_time(stats), "CPUTime"))]>>
           [] OTHER -> <<>>

\* format_query_with_stats: the header, the two counts of the comment block
\* and the query text; query_number is <<>> for None and <<i>> for i.  The
\* table of the comment block and the SQL formatter are left out
format_query_with_stats(query, stats, query_number, sort_by) ==
    [kind |-> "query",
     header |-> Header(stats, query_number, sort_by),
     row_count |-> stats.row_count,
     total_count |-> stats.total_count,
     query |-> query]

\* the line of 120 '=' between two queries
Rule == [kind |-> "rule", header |-> <<>>, row_count |-> 0, total_count |-> 0, query |-> <<>>]

\* what a file that was there before the call holds
OldContent == <<[kind |-> "old", header |-> <<>>, row_count |-> 0, total_count |-> 0, query |-> <<>>]>>

\* the same line behind '-- ', as written into a file
CommentRule ==
    [kind |-> "comment_rule", header |-> <<>>, row_count |-> 0, total_count |-> 0, query |-> <<>>]

\* the numbered queries with the separator before every query but the first
\* (print_queries_to_console 214-221, write_single_sql_file 318-324)
RECURSIVE NumberedFrom(_, _, _, _)
NumberedFrom(sq, i, sort_by, separator) ==
    IF i > Len(sq) THEN <<>>
    ELSE (IF i > 1 THEN <<separator>> ELSE <<>>)
         \o <<format_query_with_stats(sq[i].query_text, sq[i], <<i>>, sort_by)>>
         \o NumberedFrom(sq, i + 1, sort_by, separator)

Numbered(qstats, sort_by, separator) ==
    NumberedFrom(sorted_queries(qstats, sort_by), 1, sort_by, separator)

\* f"{i:03d}"
Pad3(i) ==
    IF i < 10 THEN <<"0", "0">> \o Digits(i)
    ELSE IF i < 100 THEN <<"0">> \o Digits(i)
    ELSE Digits(i)

\* f"Query{i:03d}.sql"
QueryFileName(i) == <<"Query">> \o Pad3(i) \o <<".sql">>

File(content) == [kind |-> "file", content |-> content]

Directory == [kind |-> "dir", content |-> <<>>]

\* os.listdir(target_dir)
existing_files(d) == DOMAIN d.entries

\* the entries without the name
Without(entries, names) == [n \in (DOMAIN entries) \ names |-> entries[n]]

\* the entries with the file written by open(name, 'w')
WithFile(entries, name, content) ==
    [n \in (DOMAIN entries) \cup {name} |-> IF n = name THEN File(content) ELSE entries[n]]

\* write_multiple_sql_files 255-258: the loop that removes the regular files
RemoveFiles_None(entries) == entries

RemoveFiles(entries) ==
    Without(entries, {n \in DOMAIN entries : entries[n].kind = "file"})

\* write_multiple_sql_files 252-261: the directory holds entries and overwrite is off
ContainsFiles_Never(existing, overwrite) == FALSE

ContainsFiles(existing, overwrite) == existing # {} /\ ~overwrite

\* write_single_sql_file 301-307: the file exists and overwrite is off
AlreadyExists_Never(exists, overwrite) == FALSE

AlreadyExists(exists, overwrite) == exists /\ ~overwrite

-----------------------------------------------------------------------------
(* Inputs of the output functions *)

\* the values of sort_by: the four metrics and a name that is none of them
SortKeys == {"MaxDuration", "AvgDuration", "MaxCPUTime", "AvgCPUTime", "Other"}

\* the statistics of the tables of at most MaxOutRows rows
StatsPool ==
    {calculate_statistics([cols |-> AllCols, rows |-> rs]) :
        rs \in UNION {[1..n -> {MkRow(Str(t), Num(1), p) : t \in TextPool, p \in {1, 3, 5}}] :
                        n \in 0..MaxOutRows}}

OutputFile == <<"out.sql">>

Dummy == <<"dummy.txt">>

Sub == <<"sub">>

NoDirectory == [exists |-> FALSE, entries |-> <<>>]

DirectoryOf(entries) == [exists |-> TRUE, entries |-> entries]

\* the directory of the single file before the call
SingleDisks ==
    {NoDirectory,
     DirectoryOf(<<>>),
     DirectoryOf(OutputFile :> File(OldContent)),
     DirectoryOf(OutputFile :> Directory),
     DirectoryOf(OutputFile :> File(OldContent) @@ Dummy :> File(OldContent))}

\* the target directory before the call
MultiDisks ==
    {NoDirectory,
     DirectoryOf(<<>>),
     DirectoryOf(Dummy :> File(OldContent)),
     DirectoryOf(QueryFileName(1) :> File(OldContent)),
     DirectoryOf(Sub :> Directory),
     DirectoryOf(QueryFileName(1) :> Directory),
     DirectoryOf(Dummy :> File(OldContent) @@ Sub :> Directory),
     DirectoryOf(QueryFileName(2) :> File(OldContent) @@ Dummy :> File(OldContent))}

OutCall(fn, qstats, sort_by, overwrite, d) ==
    [fn |-> fn, query_stats |-> qstats, sort_by |-> sort_by, overwrite |-> overwrite,
     output_file |-> OutputFile, disk0 |-> d]

\* the calls: print_queries_to_console, the output_file branch of
\* process_files (which takes no overwrite), write_single_sql_file and
\* write_multiple_sql_files
OutInputs ==
    {OutCall("print_queries_to_console", qs, k, FALSE, NoDirectory) :
        qs \in StatsPool, k \in SortKeys}
    \cup {OutCall("process_files", qs, "MaxDuration", FALSE, d) :
            qs \in {x \in StatsPool : Len(x) = 1}, d \in SingleDisks}
    \cup {OutCall("write_single_sql_file", qs, k, o, d) :
            qs \in StatsPool, k \in {"MaxDuration", "Other"}, o \in BOOLEAN, d \in SingleDisks}
    \cup {OutCall("write_multiple_sql_files", qs, k, o, d) :
            qs \in StatsPool, k \in {"MaxDuration", "AvgDuration"}, o \in BOOLEAN, d \in MultiDisks}

-----------------------------------------------------------------------------
(* The output functions, one step at a time *)

InitOut ==
    /\ out_call \in OutInputs
    /\ disk = out_call.disk0
    /\ echoed = <<>>
    /\ out_i = 0
    /\ out_error = "None"
    /\ out_pc = "start"
    /\ AggIdle
    /\ ProcIdle
    /\ FmtIdle
    /\ NumIdle
    /\ MoreIdle

\* print_queries_to_console
PrintQueries ==
    /\ out_pc = "start"
    /\ out_call.fn = "print_queries_to_console"
    /\ echoed' = Numbered(out_call.query_stats, out_call.sort_by, Rule)
    /\ out_pc' = "done"
    /\ UNCHANGED <<out_call, disk, out_i, out_error, aggVars, procVars, fmtVars, numVars, moreVars>>

\* query_processor.py 69-71: the module does not import os, the call of
\* os.makedirs raises NameError before the file is opened
ProcessFilesOutputFile ==
    /\ out_pc = "start"
    /\ out_call.fn = "process_files"
    /\ out_error' = "NameError"
    /\ out_pc' = "raised"
    /\ UNCHANGED <<out_call, disk, echoed, out_i, aggVars, procVars, fmtVars, numVars, moreVars>>

\* write_single_sql_file 296-304: the directory is made, a file in the way
\* is removed under overwrite
SingleCheck ==
    /\ out_pc = "start"
    /\ out_call.fn = "write_single_sql_file"
    /\ LET exists == out_call.output_file \in existing_files(disk)
       IN  /\ ~AlreadyExists(exists, out_call.overwrite)
           /\ ~(exists /\ out_call.overwrite /\ disk.entries[out_call.output_file].kind = "dir")
           /\ disk' = [exists |-> TRUE,
                       entries |-> IF exists /\ out_call.overwrite
                                   THEN Without(disk.entries, {out_call.output_file})
                                   ELSE disk.entries]
    /\ out_pc' = "write"
    /\ UNCHANGED <<out_call, echoed, out_i, out_error, aggVars, procVars, fmtVars, numVars, moreVars>>

\* write_single_sql_file 304, 307: ValueError without overwrite; under
\* overwrite os.remove raises on a directory
SingleRaise ==
    /\ out_pc = "start"
    /\ out_call.fn = "write_single_sql_file"
    /\ LET exists == out_call.output_file \in existing_files(disk)
       IN  \/ /\ AlreadyExists(exists, out_call.overwrite)
              /\ out_error' = "ValueError"
           \/ /\ exists /\ out_call.overwrite
              /\ disk.entries[out_call.output_file].kind = "dir"
              /\ out_error' = "OSError"
    /\ out_pc' = "raised"
    /\ UNCHANGED <<out_call, disk, echoed, out_i, aggVars, procVars, fmtVars, numVars, moreVars>>

\* write_single_sql_file 310-326
SingleWrite ==
    /\ out_pc = "write"
    /\ out_call.fn = "write_single_sql_file"
    /\ disk' = [disk EXCEPT !.entries =
                    WithFile(@, out_call.output_file,
                             Numbered(out_call.query_stats, out_call.sort_by, CommentRule))]
    /\ out_pc' = "done"
    /\ UNCHANGED <<out_call, echoed, out_i, out_error, aggVars, procVars, fmtVars, numVars, moreVars>>

\* write_multiple_sql_files 248-258: the directory is made, its regular
\* files are removed under overwrite
MultiCheck ==
    /\ out_pc = "start"
    /\ out_call.fn = "write_multiple_sql_files"
    /\ ~ContainsFiles(existing_files(disk), out_call.overwrite)
    /\ disk' = [exists |-> TRUE,
                entries |-> IF existing_files(disk) # {} /\ out_call.overwrite
                            THEN RemoveFiles(disk.entries)
                            ELSE disk.entries]
    /\ out_i' = 1
    /\ out_pc' = "write"
    /\ UNCHANGED <<out_call, echoed, out_error, aggVars, procVars, fmtVars, numVars, moreVars>>

\* write_multiple_sql_files 261
MultiRaise ==
    /\ out_pc = "start"
    /\ out_call.fn = "write_multiple_sql_files"
    /\ ContainsFiles(existing_files(disk), out_call.overwrite)
    /\ out_error' = "ValueError"
    /\ out_pc' = "raised"
    /\ UNCHANGED <<out_call, disk, echoed, out_i, aggVars, procVars, fmtVars, numVars, moreVars>>

\* write_multiple_sql_files 271-276: one turn of the loop
WriteQueryFile ==
    /\ out_pc = "write"
    /\ out_call.fn = "write_multiple_sql_files"
    /\ out_i <= Len(out_call.query_stats)
    /\ ~(QueryFileName(out_i) \in existing_files(disk)
         /\ disk.entries[QueryFileName(out_i)].kind = "dir")
    /\ LET sq == sorted_queries(out_call.query_stats, out_call.sort_by)
       IN  disk' = [disk EXCEPT !.entries =
                        WithFile(@, QueryFileName(out_i),
                                 <<format_query_with_stats(sq[out_i].query_text, sq[out_i],
                                                           <<>>, out_call.sort_by)>>)]
    /\ out_i' = out_i + 1
    /\ UNCHANGED <<out_call, echoed, out_error, out_pc, aggVars, procVars, fmtVars, numVars, moreVars>>

\* write_multiple_sql_files 274: open() raises on a name that is a directory
WriteQueryFileRaises ==
    /\ out_pc = "write"
    /\ out_call.fn = "write_multiple_sql_files"
    /\ out_i <= Len(out_call.query_stats)
    /\ QueryFileName(out_i) \in existing_files(disk)
    /\ disk.entries[QueryFileName(out_i)].kind = "dir"
    /\ out_error' = "IsADirectoryError"
    /\ out_pc' = "raised"
    /\ UNCHANGED <<out_call, disk, echoed, out_i, aggVars, procVars, fmtVars, numVars, moreVars>>

\* write_multiple_sql_files 278
MultiReturn ==
    /\ out_pc = "write"
    /\ out_call.fn = "write_multiple_sql_files"
    /\ out_i > Len(out_call.query_stats)
    /\ out_pc' = "done"
    /\ UNCHANGED <<out_call, disk, echoed, out_i, out_error, aggVars, procVars, fmtVars, numVars, moreVars>>

NextOut ==
    \/ PrintQueries
    \/ ProcessFilesOutputFile
    \/ SingleCheck
    \/ SingleRaise
    \/ SingleWrite
    \/ MultiCheck
    \/ MultiRaise
    \/ WriteQueryFile
    \/ WriteQueryFileRaises
    \/ MultiReturn

SpecOut == InitOut /\ [][NextOut]_vars

-----------------------------------------------------------------------------
(* formatting.py: format_number_with_suffix                                 *)
(* A value is [r, e], the rational r times 1000^e, so that the values that   *)
(* take the suffixes 'T' and 'P' fit; e > 0 goes with 1 <= r < 1000.         *)

\* formatting.py 26
suffixes == <<"", "k", "M", "G", "T", "P">>

RECURSIVE Pow(_, _)
Pow(b, k) == IF k = 0 THEN 1 ELSE b * Pow(b, k - 1)

\* value == 0
IsZeroValue(x) == x.r.d # 0 /\ x.r.n = 0

\* value >= 1000
AtLeast1000(x) ==
    \/ x.r.d = 0
    \/ x.r.n > 0 /\ (x.e > 0 \/ x.r.n >= 1000 * x.r.d)

\* value /= 1000
Div1000(x) ==
    IF x.r.d = 0 THEN x
    ELSE IF x.e > 0 THEN [x EXCEPT !.e = @ - 1]
    ELSE [r |-> Rat(x.r.n, x.r.d * 1000), e |-> 0]

\* the value as one rational
Plain(x) == IF x.r.d = 0 THEN Inf ELSE Rat(x.r.n * Pow(1000, x.e), x.r.d)

\* formatting.py 39-44: the number of decimals printed
Decimals_Two(v) == 2

Decimals(v) ==
    IF RLeq(Rat(100, 1), v) THEN 0
    ELSE IF RLeq(Rat(10, 1), v) THEN 1
    ELSE 2

\* the digits of n, with zeros in front up to the width w
RECURSIVE ZeroPad(_, _)
ZeroPad(n, w) == IF Len(Digits(n)) >= w THEN Digits(n) ELSE <<"0">> \o ZeroPad(n, w - 1)

\* f"{v:.<dec>f}": v rounded to dec decimals, ties to even
FormatFixed(v, dec) ==
    IF v.d = 0 THEN <<"i", "n", "f">>
    ELSE LET q == RoundHalfEven(Abs(v.n) * Pow(10, dec), v.d)
             whole == Digits(q \div Pow(10, dec))
             sign == IF v.n < 0 THEN <<"-">> ELSE <<>>
         IN  IF dec = 0 THEN sign \o whole
             ELSE sign \o whole \o <<".">> \o ZeroPad(q % Pow(10, dec), dec)

\* formatting.py 39-44
FormatWithSuffix(x, index) ==
    FormatFixed(Plain(x), Decimals(Plain(x)))
    \o (IF suffixes[index + 1] = "" THEN <<>> ELSE <<suffixes[index + 1]>>)

\* the integers below 1000 given to format_number_with_suffix
Mantissas == {1, 5, 10, 50, 99, 100, 500, 999}

\* the arguments: m * 1000^e, and values below 1000^2 with a fraction, a
\* sign, a carry into the next digit, or no end
NumInputs ==
    {[r |-> Rat(m, 1), e |-> k] : m \in Mantissas, k \in 0..MaxExp}
    \cup {[r |-> x, e |-> 0] :
            x \in {Zero, Inf, Rat(1, 2), Rat(1, 8), Rat(-5, 1), Rat(-5000, 1), Rat(1999, 2),
                   Rat(1000, 1), Rat(1500, 1), Rat(12340, 1), Rat(999499, 1),
                   Rat(999999, 1), Rat(123456, 1)}}

-----------------------------------------------------------------------------
(* format_number_with_suffix, one step at a time *)

InitNum ==
    /\ num_input \in NumInputs
    /\ value = num_input
    /\ suffix_index = 0
    /\ num_result = <<>>
    /\ num_pc = "start"
    /\ AggIdle
    /\ ProcIdle
    /\ FmtIdle
    /\ OutIdle
    /\ MoreIdle

\* formatting.py 30-31
ReturnZero ==
    /\ num_pc = "start"
    /\ IsZeroValue(value)
    /\ num_result' = <<"0">>
    /\ num_pc' = "done"
    /\ UNCHANGED <<num_input, value, suffix_index, aggVars, procVars, fmtVars, outVars, moreVars>>

\* formatting.py 30, 34: the value is not zero, the loop is entered
EnterLoop ==
    /\ num_pc = "start"
    /\ ~IsZeroValue(value)
    /\ num_pc' = "loop"
    /\ UNCHANGED <<num_input, value, suffix_index, num_result,
                   aggVars, procVars, fmtVars, outVars, moreVars>>

\* formatting.py 34-36: one turn of the loop
Divide ==
    /\ num_pc = "loop"
    /\ AtLeast1000(value) /\ suffix_index < Len(suffixes) - 1
    /\ value' = Div1000(value)
    /\ suffix_index' = suffix_index + 1
    /\ UNCHANGED <<num_input, num_result, num_pc, aggVars, procVars, fmtVars, outVars, moreVars>>

\* formatting.py 39-44
FormatValue ==
    /\ num_pc = "loop"
    /\ ~(AtLeast1000(value) /\ suffix_index < Len(suffixes) - 1)
    /\ num_result' = FormatWithSuffix(value, suffix_index)
    /\ num_pc' = "done"
    /\ UNCHANGED <<num_input, value, suffix_index, aggVars, procVars, fmtVars, outVars, moreVars>>

NextNum == ReturnZero \/ EnterLoop \/ Divide \/ FormatValue

SpecNum == InitNum /\ [][NextNum]_vars

-----------------------------------------------------------------------------
(* cli.py: main *)

\* the members of OutputMode, which main imports from query_processor
OutputMode == {"STDOUT", "SINGLE_FILE", "MULTIPLE_FILES"}

Dash == <<"-">>

\* cli.py 54-61: the output mode for the value of --output
SelectMode_Multiple(out) == "MULTIPLE_FILES"

SelectMode(out) ==
    IF out = Some(Dash) THEN "STDOUT"
    ELSE IF out # None THEN "SINGLE_FILE"
    ELSE "MULTIPLE_FILES"

\* cli.py 56, 59, 62: the path handed on with the mode
SelectPath(out, dir) ==
    IF out = Some(Dash) THEN None
    ELSE IF out # None THEN out
    ELSE dir

\* cli.py 49: both --output and --output-dir were given
BothGiven_Never(out, dir) == FALSE

BothGiven(out, dir) == out # None /\ dir # None

\* a FILES argument: the path typed and the paths glob.glob gives for it
Pattern(path, matched) == [path |-> path, matched |-> matched]

FilePatterns ==
    {Pattern(<<"a">>, << <<"a">> >>),
     Pattern(<<"[">>, <<>>),
     Pattern(<<"*">>, << <<"a">>, <<"b">> >>)}

\* the values of --output and of --output-dir
OutputValues == {None, Some(Dash), Some(OutputFile), Some(<<>>)}

OutputDirValues == {None, Some(Sub)}

\* cli.py 33-38: the paths collected from the first n patterns
RECURSIVE Expanded(_, _)
Expanded(fs, n) == IF n = 0 THEN <<>> ELSE Expanded(fs, n - 1) \o fs[n].matched

\* cli.py 36-37: the patterns among the first n that matched nothing, one warning each
RECURSIVE Unmatched(_, _)
Unmatched(fs, n) ==
    IF n = 0 THEN <<>>
    ELSE Unmatched(fs, n - 1)
         \o (IF fs[n].matched = <<>> THEN << <<"Warning", fs[n].path>> >> ELSE <<>>)

-----------------------------------------------------------------------------
(* main, one step at a time *)

InitCli ==
    /\ files \in UNION {[1..n -> FilePatterns] : n \in 1..MaxFiles}
    /\ output \in OutputValues
    /\ output_dir \in OutputDirValues
    /\ cli_overwrite \in BOOLEAN
    /\ expanded_files = <<>>
    /\ output_mode = "None"
    /\ output_path = None
    /\ cli_echo = <<>>
    /\ called = <<>>
    /\ cli_pc = "start"
    /\ AggIdle
    /\ ProcIdle
    /\ FmtIdle
    /\ OutIdle
    /\ NumIdle
    /\ FoldIdle
    /\ EncIdle
    /\ FileIdle

\* cli.py 33-38
ExpandGlobs ==
    /\ cli_pc = "start"
    /\ expanded_files' = Expanded(files, Len(files))
    /\ cli_echo' = Unmatched(files, Len(files))
    /\ cli_pc' = "expanded"
    /\ UNCHANGED <<files, output, output_dir, cli_overwrite, output_mode, output_path, called,
                   aggVars, procVars, fmtVars, outVars, numVars, foldVars, encVars, fileVars>>

\* cli.py 40-42
NoFilesToProcess ==
    /\ cli_pc = "expanded"
    /\ expanded_files = <<>>
    /\ cli_echo' = Append(cli_echo, <<"Error", <<"No files to process.">> >>)
    /\ cli_pc' = "returned"
    /\ UNCHANGED <<files, output, output_dir, cli_overwrite, expanded_files, output_mode,
                   output_path, called,
                   aggVars, procVars, fmtVars, outVars, numVars, foldVars, encVars, fileVars>>

\* cli.py 49-51
RejectBothOutputs ==
    /\ cli_pc = "expanded"
    /\ expanded_files # <<>>
    /\ BothGiven(output, output_dir)
    /\ cli_echo' = Append(cli_echo,
                          <<"Error", <<"Cannot specify both --output and --output-dir">> >>)
    /\ cli_pc' = "returned"
    /\ UNCHANGED <<files, output, output_dir, cli_overwrite, expanded_files, output_mode,
                   output_path, called,
                   aggVars, procVars, fmtVars, outVars, numVars, foldVars, encVars, fileVars>>

\* cli.py 54-75: the mode and the path are set and process_files is called
CallProcessFiles ==
    /\ cli_pc = "expanded"
    /\ expanded_files # <<>>
    /\ ~BothGiven(output, output_dir)
    /\ output_mode' = SelectMode(output)
    /\ output_path' = SelectPath(output, output_dir)
    /\ called' = Append(called, [file_paths |-> expanded_files,
                                 output_mode |-> SelectMode(output),
                                 output_path |-> SelectPath(output, output_dir),
                                 overwrite |-> cli_overwrite])
    /\ cli_pc' = "called"
    /\ UNCHANGED <<files, output, output_dir, cli_overwrite, expanded_files, cli_echo,
                   aggVars, procVars, fmtVars, outVars, numVars, foldVars, encVars, fileVars>>

NextCli == ExpandGlobs \/ NoFilesToProcess \/ RejectBothOutputs \/ CallProcessFiles

SpecCli == InitCli /\ [][NextCli]_vars

-----------------------------------------------------------------------------
(* calculate_statistics over a batch, over a permutation of it, over its parts *)

\* the rows of the batches: two query texts, three profiles of values with
\* their weights, a row without query text, a row without weight
BatchRows ==
    {MkRow(Str(q), Num(np[1]), np[2]) : q \in {A, B}, np \in {<<1, 1>>, <<2, 5>>, <<1, 4>>}}
    \cup {MkRow(Str(<<" ">>), Num(1), 1), MkRow(Str(A), NaN, 6)}

Batches == UNION {[1..n -> BatchRows] : n \in 0..MaxBatch}

Frame(rows) == [cols |-> AllCols, rows |-> rows]

InitFold ==
    /\ batch \in Batches
    /\ perm = <<>>
    /\ cut = 0
    /\ of_whole = <<>>
    /\ of_permuted = <<>>
    /\ of_left = <<>>
    /\ of_right = <<>>
    /\ fold_pc = "start"
    /\ AggIdle
    /\ ProcIdle
    /\ FmtIdle
    /\ OutIdle
    /\ NumIdle
    /\ CliIdle
    /\ EncIdle
    /\ FileIdle

\* calculate_statistics(batch)
AggregateWhole ==
    /\ fold_pc = "start"
    /\ of_whole' = calculate_statistics(Frame(batch))
    /\ fold_pc' = "whole"
    /\ UNCHANGED <<batch, perm, cut, of_permuted, of_left, of_right,
                   aggVars, procVars, fmtVars, outVars, numVars, cliVars, encVars, fileVars>>

\* calculate_statistics over the rows of the batch in another order
AggregatePermuted ==
    /\ fold_pc = "whole"
    /\ \E f \in Permutations(1..Len(batch)) :
        /\ perm' = f
        /\ of_permuted' = calculate_statistics(Frame([i \in 1..Len(batch) |-> batch[f[i]]]))
    /\ fold_pc' = "permuted"
    /\ UNCHANGED <<batch, cut, of_whole, of_left, of_right,
                   aggVars, procVars, fmtVars, outVars, numVars, cliVars, encVars, fileVars>>

\* calculate_statistics over the first rows of the batch and over the rest
AggregateParts ==
    /\ fold_pc = "whole"
    /\ \E c \in 0..Len(batch) :
        /\ cut' = c
        /\ of_left' = calculate_statistics(Frame(SubSeq(batch, 1, c)))
        /\ of_right' = calculate_statistics(Frame(SubSeq(batch, c + 1, Len(batch))))
    /\ fold_pc' = "parts"
    /\ UNCHANGED <<batch, perm, of_whole, of_permuted,
                   aggVars, procVars, fmtVars, outVars, numVars, cliVars, encVars, fileVars>>

NextFold == AggregateWhole \/ AggregatePermuted \/ AggregateParts

SpecFold == InitFold /\ [][NextFold]_vars

-----------------------------------------------------------------------------
(* file_format.py: detect_encoding and the attempts of load_tsv_file *)

\* the encodings detect_encoding can return (lines 193-206)
DetectedEncodings == {"utf-16le", "utf-16be", "utf-8-sig", "utf-8"}

\* file_format.py 289
fallback_encodings == <<"utf-8", "utf-16le", "utf-16be", "latin1">>

\* the error load_tsv_file raises after the last fallback is the last one caught
RaisedError_Last(tried) == tried[Len(tried)]

\* file_format.py 287, 297: "raise e" raises the exception of the first attempt
RaisedError(tried) == tried[1]

\* fallbacks that begin with the detected encoding again
SkipTried_Never(enc, fallback_encoding) == FALSE

\* file_format.py 290: the fallback is the encoding already tried
SkipTried(enc, fallback_encoding) == fallback_encoding = enc

\* the file cannot be opened, or it starts with one of the byte order marks
\* or with none; detect_and_load_file succeeds under the encodings of
\* loads_under and raises under every other
InitEnc ==
    /\ bom \in DetectedEncodings \cup {"OSError"}
    /\ loads_under \in SUBSET (DetectedEncodings \cup {"latin1"})
    /\ attempts = <<>>
    /\ fallback_i = 0
    /\ returned = "None"
    /\ raised = "None"
    /\ enc_pc = "start"
    /\ AggIdle
    /\ ProcIdle
    /\ FmtIdle
    /\ OutIdle
    /\ NumIdle
    /\ CliIdle
    /\ FoldIdle
    /\ FileIdle

\* file_format.py 282: open raises, outside the try
DetectEncodingRaises ==
    /\ enc_pc = "start"
    /\ bom = "OSError"
    /\ raised' = "OSError"
    /\ enc_pc' = "raised"
    /\ UNCHANGED <<bom, loads_under, attempts, fallback_i, returned,
                   aggVars, procVars, fmtVars, outVars, numVars, cliVars, foldVars, fileVars>>

\* file_format.py 284-286: the attempt with the detected encoding returns
FirstAttemptReturns ==
    /\ enc_pc = "start"
    /\ bom \in DetectedEncodings
    /\ bom \in loads_under
    /\ attempts' = <<bom>>
    /\ returned' = bom
    /\ enc_pc' = "returned"
    /\ UNCHANGED <<bom, loads_under, fallback_i, raised,
                   aggVars, procVars, fmtVars, outVars, numVars, cliVars, foldVars, fileVars>>

\* file_format.py 287-289: the attempt with the detected encoding raises
FirstAttemptRaises ==
    /\ enc_pc = "start"
    /\ bom \in DetectedEncodings
    /\ bom \notin loads_under
    /\ attempts' = <<bom>>
    /\ fallback_i' = 1
    /\ enc_pc' = "fallback"
    /\ UNCHANGED <<bom, loads_under, returned, raised,
                   aggVars, procVars, fmtVars, outVars, numVars, cliVars, foldVars, fileVars>>

\* file_format.py 290: the fallback already tried is passed over
SkipFallback ==
    /\ enc_pc = "fallback"
    /\ fallback_i <= Len(fallback_encodings)
    /\ SkipTried(bom, fallback_encodings[fallback_i])
    /\ fallback_i' = fallback_i + 1
    /\ UNCHANGED <<bom, loads_under, attempts, returned, raised, enc_pc,
                   aggVars, procVars, fmtVars, outVars, numVars, cliVars, foldVars, fileVars>>

\* file_format.py 291-292
FallbackReturns ==
    /\ enc_pc = "fallback"
    /\ fallback_i <= Len(fallback_encodings)
    /\ ~SkipTried(bom, fallback_encodings[fallback_i])
    /\ fallback_encodings[fallback_i] \in loads_under
    /\ attempts' = Append(attempts, fallback_encodings[fallback_i])
    /\ returned' = fallback_encodings[fallback_i]
    /\ enc_pc' = "returned"
    /\ UNCHANGED <<bom, loads_under, fallback_i, raised,
                   aggVars, procVars, fmtVars, outVars, numVars, cliVars, foldVars, fileVars>>

\* file_format.py 293-294
FallbackRaises ==
    /\ enc_pc = "fallback"
    /\ fallback_i <= Len(fallback_encodings)
    /\ ~SkipTried(bom, fallback_encodings[fallback_i])
    /\ fallback_encodings[fallback_i] \notin loads_under
    /\ attempts' = Append(attempts, fallback_encodings[fallback_i])
    /\ fallback_i' = fallback_i + 1
    /\ UNCHANGED <<bom, loads_under, returned, raised, enc_pc,
                   aggVars, procVars, fmtVars, outVars, numVars, cliVars, foldVars, fileVars>>

\* file_format.py 296-297
RaiseOriginal ==
    /\ enc_pc = "fallback"
    /\ fallback_i > Len(fallback_encodings)
    /\ raised' = RaisedError(attempts)
    /\ enc_pc' = "raised"
    /\ UNCHANGED <<bom, loads_under, attempts, fallback_i, returned,
                   aggVars, procVars, fmtVars, outVars, numVars, cliVars, foldVars, fileVars>>

NextEnc ==
    \/ DetectEncodingRaises
    \/ FirstAttemptReturns
    \/ FirstAttemptRaises
    \/ SkipFallback
    \/ FallbackReturns
    \/ FallbackRaises
    \/ RaiseOriginal

SpecEnc == InitEnc /\ [][NextEnc]_vars

-----------------------------------------------------------------------------
(* file_format.py: detect_and_load_file, with both reads of the file *)

EightNames ==
    <<"CPUTime", "DeleteRows", "Duration", "ReadBytes", "ReadRows", "RequestUnits",
      "UpdateBytes", "UpdateRows">>

\* file_format.py 13-21
QUERY_METRICS_COLUMNS ==
    <<CountCol, IntervalEndCol>>
    \o [j \in 1..8 |-> Col("Max", EightNames[j])]
    \o [j \in 1..8 |-> Col("Min", EightNames[j])]
    \o <<QueryTextCol, RankCol>>
    \o [j \in 1..8 |-> Col("Sum", EightNames[j])]

\* file_format.py 23-31
TOP_QUERIES_COLUMNS ==
    [j \in 1..29 |->
        Col("", <<"CPUTime", "CompileCPUTime", "CompileDuration", "ComputeNodesCount",
                  "DeleteBytes", "DeleteRows", "Duration", "EndTime", "FromQueryCache",
                  "IntervalEnd", "MaxComputeCPUTime", "MaxShardCPUTime", "MinComputeCPUTime",
                  "MinShardCPUTime", "ParametersSize", "Partitions", "ProcessCPUTime",
                  "QueryText", "Rank", "ReadBytes", "ReadRows", "RequestUnits",
                  "ShardCount", "SumComputeCPUTime", "SumShardCPUTime", "Type",
                  "UpdateBytes", "UpdateRows", "UserSID">>[j])]

\* the characters of a text as one string
RECURSIVE Join(_)
Join(t) == IF t = <<>> THEN "" ELSE Head(t) \o Join(Tail(t))

\* the column label that is the text t
LabelOf(t) ==
    IF /\ Len(t) > 3
       /\ Join(SubSeq(t, 1, 3)) \in {"Min", "Max", "Sum"}
       /\ \E j \in 1..8 : Join(SubSeq(t, 4, Len(t))) = EightNames[j]
    THEN Col(Join(SubSeq(t, 1, 3)), Join(SubSeq(t, 4, Len(t))))
    ELSE Col("", Join(t))

Unnamed == <<"U", "n", "n", "a", "m", "e", "d", ":", " ">>

\* the text of field i of the header line as read_csv(header=0) names it: an
\* empty field is 'Unnamed: <position>', and a text met k times before gets
\* the suffix '.k'.  The text is not stripped
HeaderText(d, i) ==
    LET cell(j) == d.rows[1][IntLabel(j)]
        text(j) == IF IsNa(cell(j)) THEN Unnamed \o Digits(j - 1) ELSE CellStr(cell(j))
        before == Cardinality({j \in 1..(i - 1) : text(j) = text(i)})
    IN  IF before = 0 THEN text(i) ELSE text(i) \o <<".">> \o Digits(before)

\* has_headers.  The sample is read with header=None, its labels are
\* integers: line 224 finds no indicator among them
has_headers(d) ==
    IF d.rows = <<>> \/ d.cols = {} THEN FALSE
    ELSE \/ \E c \in d.cols :
                c \in {QueryTextCol, Col("Max", "Duration"), DurationCol, IntervalEndCol}
         \/ \E t \in first_row_values(d) :
                Join(t) \in {"QueryText", "MaxDuration", "Duration", "IntervalEnd"}

\* pd.read_csv(file_path, sep='\t', encoding=encoding) of the file whose
\* lines are the rows of d: the first line names the columns
ReadWithHeaderRow(d) ==
    LET w == Cardinality(d.cols)
        label(i) == LabelOf(HeaderText(d, i))
    IN  [cols |-> {label(i) : i \in 1..w},
         rows |-> [r \in 1..(Len(d.rows) - 1) |->
                    [c \in {label(i) : i \in 1..w} |->
                        d.rows[r + 1][IntLabel(CHOOSE i \in 1..w : label(i) = c)]]]]

\* pd.read_csv(..., header=None, names=column_names): names beyond the
\* fields of the lines are null columns; when the lines have more fields
\* than there are names, the leading fields become the index
ReadWithNamesOf(d, column_names) ==
    LET w == Cardinality(d.cols)
        lead == IF w > Len(column_names) THEN w - Len(column_names) ELSE 0
    IN  [cols |-> {column_names[j] : j \in 1..Len(column_names)},
         rows |-> [r \in 1..Len(d.rows) |->
                    [c \in {column_names[j] : j \in 1..Len(column_names)} |->
                        LET j == CHOOSE k \in 1..Len(column_names) : column_names[k] = c
                        IN  IF j + lead <= w THEN d.rows[r][IntLabel(j + lead)] ELSE NaN]]]

\* the files: no line at all, or lines of 2, 28, 29 or 30 fields
RawFiles ==
    {EmptyFrame}
    \cup {t \in UNION {TablesOver({IntLabel(i) : i \in 1..n}) : n \in ColCounts \ {0}} :
            t.rows # <<>>}

InitFile ==
    /\ raw \in RawFiles
    /\ format_hint \in {"None", "top_queries", "query_metrics"}
    /\ headers_present = FALSE
    /\ sample_df = EmptyFrame
    /\ file_format = "None"
    /\ result_df = EmptyFrame
    /\ load_error = "None"
    /\ load_pc = "open"
    /\ AggIdle
    /\ ProcIdle
    /\ OutIdle
    /\ NumIdle
    /\ CliIdle
    /\ FoldIdle
    /\ EncIdle

\* file_format.py 247: the first five lines, without a header
ReadSample ==
    /\ load_pc = "open"
    /\ raw.rows # <<>>
    /\ sample_df' = [raw EXCEPT !.rows = SubSeq(@, 1, IF Len(@) < 5 THEN Len(@) ELSE 5)]
    /\ load_pc' = "start"
    /\ UNCHANGED <<format_hint, file_format, result_df, load_error, raw, headers_present,
                   aggVars, procVars, outVars, numVars, cliVars, foldVars, encVars>>

\* file_format.py 247: read_csv raises EmptyDataError for a file without lines
ReadSampleRaises ==
    /\ load_pc = "open"
    /\ raw.rows = <<>>
    /\ load_error' = "EmptyDataError"
    /\ load_pc' = "raised"
    /\ UNCHANGED <<sample_df, format_hint, file_format, result_df, raw, headers_present,
                   aggVars, procVars, outVars, numVars, cliVars, foldVars, encVars>>

\* file_format.py 253
HasHeaders ==
    /\ load_pc = "detected"
    /\ headers_present' = has_headers(sample_df)
    /\ load_pc' = "headers"
    /\ UNCHANGED <<sample_df, format_hint, file_format, result_df, load_error, raw,
                   aggVars, procVars, outVars, numVars, cliVars, foldVars, encVars>>

\* file_format.py 256-258
ReadWithHeader ==
    /\ load_pc = "headers"
    /\ headers_present
    /\ result_df' = ReadWithHeaderRow(raw)
    /\ load_pc' = "loaded"
    /\ UNCHANGED <<sample_df, format_hint, file_format, load_error, raw, headers_present,
                   aggVars, procVars, outVars, numVars, cliVars, foldVars, encVars>>

\* file_format.py 259-261
ReadWithNames ==
    /\ load_pc = "headers"
    /\ ~headers_present
    /\ result_df' = ReadWithNamesOf(raw, IF file_format = "top_queries"
                                         THEN TOP_QUERIES_COLUMNS ELSE QUERY_METRICS_COLUMNS)
    /\ load_pc' = "loaded"
    /\ UNCHANGED <<sample_df, format_hint, file_format, load_error, raw, headers_present,
                   aggVars, procVars, outVars, numVars, cliVars, foldVars, encVars>>

\* file_format.py 264-267
TransformLoaded ==
    /\ load_pc = "loaded"
    /\ file_format = "top_queries"
    /\ result_df' = transform_top_queries_to_query_metrics(result_df)
    /\ load_pc' = "done"
    /\ UNCHANGED <<sample_df, format_hint, file_format, load_error, raw, headers_present,
                   aggVars, procVars, outVars, numVars, cliVars, foldVars, encVars>>

\* file_format.py 264, 267: a query_metrics table is returned as it was read
ReturnLoaded ==
    /\ load_pc = "loaded"
    /\ file_format # "top_queries"
    /\ load_pc' = "done"
    /\ UNCHANGED <<sample_df, format_hint, file_format, result_df, load_error, raw,
                   headers_present,
                   aggVars, procVars, outVars, numVars, cliVars, foldVars, encVars>>

NextFile ==
    \/ ReadSample
    \/ ReadSampleRaises
    \/ DetectFileFormat
    \/ DetectRaises
    \/ UseFormatHint
    \/ HasHeaders
    \/ ReadWithHeader
    \/ ReadWithNames
    \/ TransformLoaded
    \/ ReturnLoaded

SpecFile == InitFile /\ [][NextFile]_vars

-----------------------------------------------------------------------------
(* Vocabulary of the properties *)

\* a query text that is absent, empty or made of whitespace only
IsBlank(c) == c.k = "nan" \/ \A i \in 1..Len(c.s) : c.s[i] \in Whitespace

\* the rows already fed to the statistics of query text q
FedTo(q) ==
    {r \in 1..(idx - 1) : ~IsBlank(df.rows[r][QueryTextCol]) /\ df.rows[r][QueryTextCol].s = q}

\* the loop is running or has returned, and no call has raised
Fed == pc \in {"iterate", "done"}

\* every row of the input with query text q carries numbers in the three columns of metric m
Canonical(q, m) ==
    \A r \in FedTo(q) : \A p \in {"Min", "Max", "Sum"} :
        Col(p, m) \in input.cols /\ input.rows[r][Col(p, m)].k = "num"

RECURSIVE SumOf(_, _, _)
SumOf(rows, R, c) ==
    IF R = {} THEN 0
    ELSE LET r == CHOOSE x \in R : TRUE
         IN  rows[r][c].v + SumOf(rows, R \ {r}, c)

\* x is the least (greatest) of the values of column c over the rows R, divided by scale
IsLeast(x, rows, R, c, scale) ==
    /\ \E r \in R : x = Rat(rows[r][c].v, scale)
    /\ \A r \in R : x.n * scale <= rows[r][c].v * x.d

IsGreatest(x, rows, R, c, scale) ==
    /\ \E r \in R : x = Rat(rows[r][c].v, scale)
    /\ \A r \in R : x.n * scale >= rows[r][c].v * x.d

Entries == {unique_queries[k] : k \in 1..Len(unique_queries)}

-----------------------------------------------------------------------------
(* C1 *)

\* C1 as stated: when calculate_statistics has returned, every metric of every
\* query fed canonical rows has min = the least Min<X>/scale, max = the
\* greatest Max<X>/scale and sum = the unscaled total of Sum<X>.
C1_AsStated ==
    pc = "done" =>
        \A qs \in Entries : \A m \in Metrics :
            Canonical(qs.query_text, m) =>
                /\ IsLeast(qs.metrics[m].min, input.rows, FedTo(qs.query_text), Col("Min", m), Scale(m))
                /\ IsGreatest(qs.metrics[m].max, input.rows, FedTo(qs.query_text), Col("Max", m), Scale(m))
                /\ qs.metrics[m].sum = SumOf(input.rows, FedTo(qs.query_text), Col("Sum", m))

\* C1 amended: min and sum as stated; max is the greatest Max<X>/scale when
\* that is at least 0 and is 0 (the initial value) when every Max<X> is negative.
C1_MinMaxSum ==
    pc = "done" =>
        \A qs \in Entries : \A m \in Metrics :
            Canonical(qs.query_text, m) =>
                /\ IsLeast(qs.metrics[m].min, input.rows, FedTo(qs.query_text), Col("Min", m), Scale(m))
                /\ IF \E r \in FedTo(qs.query_text) : input.rows[r][Col("Max", m)].v >= 0
                   THEN IsGreatest(qs.metrics[m].max, input.rows, FedTo(qs.query_text), Col("Max", m), Scale(m))
                   ELSE qs.metrics[m].max = Zero
                /\ qs.metrics[m].sum = SumOf(input.rows, FedTo(qs.query_text), Col("Sum", m))

\* two canonical rows of one query with different MinDuration and MaxDuration have been aggregated
C1_Witness ==
    /\ pc = "done"
    /\ \E qs \in Entries :
        /\ Canonical(qs.query_text, "Duration")
        /\ \E r1, r2 \in FedTo(qs.query_text) :
            /\ input.rows[r1][Col("Min", "Duration")].v < input.rows[r2][Col("Min", "Duration")].v
            /\ input.rows[r1][Col("Max", "Duration")].v < input.rows[r2][Col("Max", "Duration")].v
        /\ RLt(duration(qs).min, duration(qs).max)

-----------------------------------------------------------------------------
(* C2 *)

\* C2 as stated: once a statistics object has been updated, min <= max for each of its metrics.
C2_AsStated ==
    Fed => \A qs \in Entries : \A m \in Metrics :
        RLeq(qs.metrics[m].min, qs.metrics[m].max)

\* C2 amended: min <= max for a metric once it has been fed at least one row
\* whose Min<X> and Max<X> are both present and non-null with Min<X> <= Max<X>.
C2_MinLeqMax ==
    Fed => \A qs \in Entries : \A m \in Metrics :
        (\E r \in FedTo(qs.query_text) :
            /\ Present(df.rows[r], Col("Min", m))
            /\ Present(df.rows[r], Col("Max", m))
            /\ df.rows[r][Col("Min", m)].v <= df.rows[r][Col("Max", m)].v)
        => RLeq(qs.metrics[m].min, qs.metrics[m].max)

\* a metric fed two rows, one of them with Min<X> <= Max<X>, holds min < max
C2_Witness ==
    /\ Fed
    /\ \E qs \in Entries :
        /\ qs.row_count = 2
        /\ \E r \in FedTo(qs.query_text) :
            /\ Present(df.rows[r], Col("Min", "Duration"))
            /\ Present(df.rows[r], Col("Max", "Duration"))
            /\ df.rows[r][Col("Min", "Duration")].v < df.rows[r][Col("Max", "Duration")].v
        /\ RLt(duration(qs).min, duration(qs).max)

-----------------------------------------------------------------------------
(* C3 *)

\* C3: row_count is the number of rows fed; total_count and the total count of
\* each of the six accumulators are the sum of the Count weights of the rows fed.
C3_Counts ==
    Fed => \A qs \in Entries :
        /\ qs.row_count = Cardinality(FedTo(qs.query_text))
        /\ qs.total_count = SumOf(df.rows, FedTo(qs.query_text), CountCol)
        /\ \A m \in Metrics :
            qs.metrics[m].total_count = SumOf(df.rows, FedTo(qs.query_text), CountCol)

\* two rows with weights that do not add up to the number of rows
C3_Witness ==
    /\ Fed
    /\ \E qs \in Entries : qs.row_count = 2 /\ qs.total_count = 3

-----------------------------------------------------------------------------
(* C4 *)

\* the weight the claim gives a raw Count cell: the number, or 1.0 when null or unparseable
ClaimedWeight(c) == IF c.k = "num" THEN c.v ELSE 1

RECURSIVE ClaimedTotal(_, _)
ClaimedTotal(rows, R) ==
    IF R = {} THEN 0
    ELSE LET r == CHOOSE x \in R : TRUE
         IN  ClaimedWeight(rows[r][CountCol]) + ClaimedTotal(rows, R \ {r})

\* C4 as stated: aggregation by calculate_statistics completes, and a row whose
\* Count is missing, null or not a number weighs exactly 1.0 in total_count and
\* in every accumulator's total count.
C4_AsStated ==
    /\ pc # "raised"
    /\ pc = "done" =>
        \A qs \in Entries :
            /\ qs.total_count = ClaimedTotal(input.rows, FedTo(qs.query_text))
            /\ \A m \in Metrics :
                qs.metrics[m].total_count = ClaimedTotal(input.rows, FedTo(qs.query_text))

-----------------------------------------------------------------------------
(* C5 *)

\* C5: avg * (total_count * scale) = sum when total_count > 0, and avg = 0 when total_count = 0.
C5_Avg ==
    Fed => \A qs \in Entries : \A m \in Metrics :
        LET ms == qs.metrics[m]
        IN  /\ ms.total_count > 0 =>
                /\ avg(ms, m).d > 0
                /\ avg(ms, m).n * ms.total_count * Scale(m) = ms.sum * avg(ms, m).d
            /\ ms.total_count = 0 => avg(ms, m) = Zero

\* one query holds a non-zero Duration sum over a positive total count, another was fed with total count 0
C5_Witness ==
    /\ Fed
    /\ \E qs \in Entries : duration(qs).total_count > 0 /\ avg(duration(qs), "Duration") # Zero
    /\ \E qs \in Entries : qs.row_count > 0 /\ duration(qs).total_count = 0

-----------------------------------------------------------------------------
(* C6 *)

\* the input without the rows whose query text is blank
WithoutBlank(d) ==
    [cols |-> d.cols,
     rows |-> SelectSeq(d.rows, LAMBDA row : ~IsBlank(row[QueryTextCol]))]

\* C6: rows with a blank query text create no entry and change nothing: the
\* result is the result of aggregating the input with those rows removed.
C6_BlankRowsIgnored ==
    pc = "done" =>
        /\ \A qs \in Entries : ~IsBlank(Str(qs.query_text))
        /\ unique_queries = calculate_statistics(WithoutBlank(input))

\* an input with a blank row and a row that is not blank has been aggregated
C6_Witness ==
    /\ pc = "done"
    /\ Len(unique_queries) = 1
    /\ \E r \in 1..Len(input.rows) : IsBlank(input.rows[r][QueryTextCol])

-----------------------------------------------------------------------------
(* C7 *)

\* x = a / b, for b # 0
IsQuotient(x, a, b) == x.d > 0 /\ x.n * a.d * b.n = a.n * b.d * x.d

\* C7 as stated: rows_per_second is 0 when duration.avg is 0 and read_rows.avg /
\* duration.avg otherwise; bytes_per_row is 0 when read_rows.avg is 0 and
\* read_bytes.avg / read_rows.avg otherwise.
C7_AsStated ==
    Fed => \A qs \in Entries :
        LET d == avg(duration(qs), "Duration")
            r == avg(read_rows(qs), "ReadRows")
            b == avg(read_bytes(qs), "ReadBytes")
        IN  /\ IF d = Zero THEN rows_per_second(qs) = Zero
               ELSE IsQuotient(rows_per_second(qs), r, d)
            /\ IF r = Zero THEN bytes_per_row(qs) = Zero
               ELSE IsQuotient(bytes_per_row(qs), b, r)

\* C7 amended: rows_per_second is 0 when duration.avg <= 0 and read_rows.avg /
\* duration.avg when duration.avg > 0; bytes_per_row is 0 when read_rows.avg <= 0
\* and read_bytes.avg / read_rows.avg when read_rows.avg > 0.
C7_Ratios ==
    Fed => \A qs \in Entries :
        LET d == avg(duration(qs), "Duration")
            r == avg(read_rows(qs), "ReadRows")
            b == avg(read_bytes(qs), "ReadBytes")
        IN  /\ IF d.n <= 0 THEN rows_per_second(qs) = Zero
               ELSE IsQuotient(rows_per_second(qs), r, d)
            /\ IF r.n <= 0 THEN bytes_per_row(qs) = Zero
               ELSE IsQuotient(bytes_per_row(qs), b, r)

\* both ratios are taken from positive averages and are not 0
C7_Witness ==
    /\ Fed
    /\ \E qs \in Entries :
        /\ avg(duration(qs), "Duration").n > 0
        /\ avg(read_rows(qs), "ReadRows").n > 0
        /\ rows_per_second(qs) # Zero
        /\ bytes_per_row(qs) # Zero

-----------------------------------------------------------------------------
(* Vocabulary of the filter properties *)

LowerChar(c) == IF c = "A" THEN "a" ELSE IF c = "B" THEN "b" ELSE c

\* text contains pat as a substring, letter case ignored
ContainsCI(text, pat) ==
    \E off \in 0..Len(text) :
        /\ off + Len(pat) <= Len(text)
        /\ \A k \in 1..Len(pat) : LowerChar(text[off + k]) = LowerChar(pat[k])

\* the row contains every like pattern and no not-like pattern
KeepByLike(row) ==
    /\ \A i \in 1..Len(like_filters) : ContainsCI(row[QueryTextCol].s, like_filters[i])
    /\ \A i \in 1..Len(not_like_filters) : ~ContainsCI(row[QueryTextCol].s, not_like_filters[i])

\* the row matches every regex pattern as a case-insensitive search
KeepByRegex(row) ==
    \A i \in 1..Len(regex_filters) :
        ReSearch(ReCompile(regex_filters[i]).items, row[QueryTextCol].s)

\* filter_queries has returned a table
FilterReturned == stage \in {"filtered", "no_match", "stats", "done"}

InvalidRegex(p) == ~ReCompile(p).ok

-----------------------------------------------------------------------------
(* C8 *)

\* C8 as stated: the rows filter_queries returns are exactly the rows whose
\* query text matches every regex pattern supplied (and passes the like and
\* not-like patterns).
C8_AsStated ==
    FilterReturned =>
        filtered_data.rows =
            SelectSeq(all_data.rows, LAMBDA row : KeepByLike(row) /\ KeepByRegex(row))

-----------------------------------------------------------------------------
(* C9 *)

\* C9: every row returned contains every like pattern and no not-like pattern
\* (letter case ignored); without regex patterns the rows returned are exactly
\* those rows; with all three lists empty the table is returned unchanged.
C9_LikeNotLike ==
    FilterReturned =>
        /\ \A r \in 1..Len(filtered_data.rows) : KeepByLike(filtered_data.rows[r])
        /\ regex_filters = <<>> =>
            filtered_data.rows = SelectSeq(all_data.rows, KeepByLike)
        /\ (like_filters = <<>> /\ not_like_filters = <<>> /\ regex_filters = <<>>) =>
            filtered_data = all_data

\* like and not-like patterns together kept one of two rows
C9_Witness ==
    /\ FilterReturned
    /\ like_filters # <<>>
    /\ not_like_filters # <<>>
    /\ regex_filters = <<>>
    /\ Len(all_data.rows) = 2
    /\ Len(filtered_data.rows) = 1

-----------------------------------------------------------------------------
(* C10 *)

\* C10: when some regex pattern is not a valid regular expression,
\* filter_queries never returns a table and process_files computes no
\* statistics and puts no query on the console.
C10_InvalidRegex ==
    (\E i \in 1..Len(regex_filters) : InvalidRegex(regex_filters[i])) =>
        /\ ~FilterReturned
        /\ filtered_data = EmptyFrame
        /\ query_stats = <<>>
        /\ console = <<>>

\* filter_queries raised on the second regex pattern after a valid first one
C10_Witness ==
    /\ stage = "raised"
    /\ Len(regex_filters) = 2
    /\ ~InvalidRegex(regex_filters[1])
    /\ InvalidRegex(regex_filters[2])
    /\ all_data.rows # <<>>

-----------------------------------------------------------------------------
(* C11 *)

\* the labels of the table include both markers x and y
LabelsInclude(d, x, y) == x \in d.cols /\ y \in d.cols

\* the first row of the table holds both marker words
ValuesInclude(d, x, y) ==
    /\ d.rows # <<>>
    /\ \E c \in d.cols : d.rows[1][c].k = "str" /\ Strip(d.rows[1][c].s) = x
    /\ \E c \in d.cols : d.rows[1][c].k = "str" /\ Strip(d.rows[1][c].s) = y

MarkersA(d) ==
    \/ LabelsInclude(d, Col("Min", "Duration"), Col("Max", "Duration"))
    \/ ValuesInclude(d, MinDurationText, MaxDurationText)

MarkersB(d) ==
    \/ LabelsInclude(d, CPUTimeCol, DurationCol)
    \/ ValuesInclude(d, CPUTimeText, DurationText)

\* detect_file_format has been called on the table and has returned or raised
DetectionOver == format_hint = "None" /\ load_pc # "start"

\* what the call gave: the format, or the exception
Detected == IF load_pc = "raised" THEN load_error ELSE file_format

\* C11 as stated: a table with the marker pair MinDuration, MaxDuration is
\* query_metrics; one with the pair CPUTime, Duration and not the other pair
\* is top_queries; one with no pair is top_queries at 29 columns and
\* query_metrics at 28.
C11_AsStated ==
    DetectionOver =>
        /\ MarkersA(sample_df) => Detected = "query_metrics"
        /\ MarkersB(sample_df) /\ ~MarkersA(sample_df) => Detected = "top_queries"
        /\ ~MarkersA(sample_df) /\ ~MarkersB(sample_df) /\ Cardinality(sample_df.cols) = 29
            => Detected = "top_queries"
        /\ ~MarkersA(sample_df) /\ ~MarkersB(sample_df) /\ Cardinality(sample_df.cols) = 28
            => Detected = "query_metrics"

-----------------------------------------------------------------------------
(* C12 *)

\* C12 as stated: a table with no marker pair whose column count is neither
\* 28 nor 29, a table of no rows included, makes detect_file_format raise its
\* format-detection error, ValueError('Unable to detect file format').
C12_AsStated ==
    DetectionOver /\ ~MarkersA(sample_df) /\ ~MarkersB(sample_df)
                  /\ Cardinality(sample_df.cols) \notin {28, 29}
        => load_pc = "raised" /\ load_error = "ValueError"

-----------------------------------------------------------------------------
(* C13 *)

\* the rows of the table that are per-event rows: all but a first row that
\* repeats the header
PerEventRows(d) ==
    {r \in 1..Len(d.rows) :
        ~(r = 1 /\ CPUTimeCol \in d.cols /\ d.rows[1][CPUTimeCol] = Str(CPUTimeText))}

\* the numeric value of metric m in the row: 0 when it is unparseable or the
\* table has no such column
ValueOf(d, r, m) ==
    IF Col("", m) \in d.cols /\ d.rows[r][Col("", m)].k = "num"
    THEN d.rows[r][Col("", m)].v
    ELSE 0

\* C13 as stated: the transform gives one canonical row per per-event row,
\* in order, with Min<X> = Max<X> = Sum<X> = the row's value of X (0 when
\* unparseable or absent), Count = 1.0, and QueryText and Rank copied.
C13_AsStated ==
    load_pc = "done" /\ file_format = "top_queries" =>
        LET per_event == PerEventRows(sample_df)
            skipped == Len(sample_df.rows) - Cardinality(per_event)
        IN  /\ Len(result_df.rows) = Cardinality(per_event)
            /\ \A r \in per_event :
                LET out == result_df.rows[r - skipped]
                IN  /\ \A m \in Metrics : \A p \in {"Min", "Max", "Sum"} :
                        out[Col(p, m)] = Num(ValueOf(sample_df, r, m))
                    /\ out[CountCol] = Num(1)
                    /\ QueryTextCol \in sample_df.cols
                        => out[QueryTextCol] = sample_df.rows[r][QueryTextCol]
                    /\ RankCol \in sample_df.cols /\ sample_df.rows[r][RankCol].k = "num"
                        => out[RankCol] = sample_df.rows[r][RankCol]

-----------------------------------------------------------------------------
(* Vocabulary of the claims about the output *)

Multi == out_call.fn = "write_multiple_sql_files"

Single == out_call.fn = "write_single_sql_file"

\* the directory existed before the call and held entries
NonEmptyBefore == out_call.disk0.exists /\ DOMAIN out_call.disk0.entries # {}

\* the entry of that name is still the one that was there before the call
Remains(n) ==
    /\ n \in DOMAIN out_call.disk0.entries
    /\ n \in DOMAIN disk.entries
    /\ disk.entries[n] = out_call.disk0.entries[n]

RegularFiles == {n \in DOMAIN disk.entries : disk.entries[n].kind = "file"}

-----------------------------------------------------------------------------
(* C14 *)

\* C14: write_multiple_sql_files without overwrite on a directory that holds
\* entries raises ValueError, and the directory stays as it was: no file is
\* written and no entry is changed.
C14_NoOverwrite ==
    Multi /\ ~out_call.overwrite /\ NonEmptyBefore =>
        /\ disk = out_call.disk0
        /\ out_pc # "start" => out_pc = "raised" /\ out_error = "ValueError"

\* the call has raised on a directory that held a file, with queries to write
C14_Witness ==
    /\ Multi /\ ~out_call.overwrite /\ NonEmptyBefore
    /\ out_pc = "raised"
    /\ Len(out_call.query_stats) > 0
    /\ Remains(Dummy)

-----------------------------------------------------------------------------
(* C15 *)

\* C15 as stated: under overwrite no entry that was in the directory is left
\* once the writing begins, and when the call returns the directory holds as
\* many entries as there are queries.
C15_AsStated ==
    Multi /\ out_call.overwrite /\ NonEmptyBefore =>
        /\ out_pc # "start" => \A n \in DOMAIN out_call.disk0.entries : ~Remains(n)
        /\ out_pc = "done" => Cardinality(DOMAIN disk.entries) = Len(out_call.query_stats)

\* C15 amended: under overwrite no regular file that was in the directory is
\* left once the writing begins (subdirectories stay), and when the call
\* returns the directory holds as many regular files as there are queries.
C15_RegularFiles ==
    Multi /\ out_call.overwrite /\ NonEmptyBefore =>
        /\ out_pc # "start" =>
            \A n \in DOMAIN out_call.disk0.entries :
                out_call.disk0.entries[n].kind = "file" => ~Remains(n)
        /\ out_pc = "done" => Cardinality(RegularFiles) = Len(out_call.query_stats)

\* the call has returned from a directory that held a file and a
\* subdirectory: the file is gone, the subdirectory is there, two queries are written
C15_Witness ==
    /\ Multi /\ out_call.overwrite
    /\ out_pc = "done"
    /\ Dummy \in DOMAIN out_call.disk0.entries /\ Dummy \notin DOMAIN disk.entries
    /\ Remains(Sub)
    /\ Len(out_call.query_stats) = 2
    /\ Cardinality(RegularFiles) = 2

-----------------------------------------------------------------------------
(* C16 *)

-----------------------------------------------------------------------------
(* C17 *)

\* the statistics of the query with that text
StatOf(text) ==
    out_call.query_stats[CHOOSE k \in 1..Len(out_call.query_stats) :
                            out_call.query_stats[k].query_text = text]

KeyOf(item) == get_sort_key(StatOf(item.query), out_call.sort_by)

IsQuery(item) == item.kind = "query"

QueriesOf(stream) == SelectSeq(stream, IsQuery)

\* the keys never rise along the sequence
Descending(items) ==
    \A i, j \in 1..Len(items) : i < j => RLeq(KeyOf(items[j]), KeyOf(items[i]))

\* the sequence holds every query of the call once
EachOnce(items) ==
    /\ Len(items) = Len(out_call.query_stats)
    /\ \A k \in 1..Len(out_call.query_stats) :
        \E i \in 1..Len(items) : items[i].query = out_call.query_stats[k].query_text

\* the name Query00<i>.sql, for i below 10
NameAt(i) == <<"Query", "0", "0", DigitChar(i), ".sql">>

\* C17: the queries echoed, the queries of the single file, and the queries
\* of Query001.sql, Query002.sql, ... in that order are all the queries, each
\* once, with sort keys that never rise; the regular files of the directory
\* are Query001.sql up to the number of queries.
C17_Descending ==
    out_pc = "done" =>
        /\ out_call.fn = "print_queries_to_console" =>
            Descending(QueriesOf(echoed)) /\ EachOnce(QueriesOf(echoed))
        /\ Single =>
            /\ Descending(QueriesOf(disk.entries[out_call.output_file].content))
            /\ EachOnce(QueriesOf(disk.entries[out_call.output_file].content))
        /\ Multi =>
            /\ RegularFiles = {NameAt(i) : i \in 1..Len(out_call.query_stats)}
            /\ \A i \in 1..Len(out_call.query_stats) :
                Len(disk.entries[NameAt(i)].content) = 1
            /\ LET held == [i \in 1..Len(out_call.query_stats) |->
                                disk.entries[NameAt(i)].content[1]]
               IN  Descending(held) /\ EachOnce(held)

\* two queries given in rising order of the key have been written to
\* Query001.sql and Query002.sql, the one with the greater key first
C17_Witness ==
    /\ Multi /\ out_pc = "done"
    /\ Len(out_call.query_stats) = 2
    /\ RLt(get_sort_key(out_call.query_stats[1], out_call.sort_by),
           get_sort_key(out_call.query_stats[2], out_call.sort_by))
    /\ disk.entries[NameAt(1)].content[1].query = out_call.query_stats[2].query_text
    /\ disk.entries[NameAt(2)].content[1].query = out_call.query_stats[1].query_text

-----------------------------------------------------------------------------
(* C18 *)

\* the metric the header names: the sort metric, MaxDuration for any other name
ShownMetric(sort_by) ==
    IF sort_by \in {"MaxDuration", "AvgDuration", "MaxCPUTime", "AvgCPUTime"}
    THEN sort_by ELSE "MaxDuration"

\* the header claimed for the item at position i
ClaimedHeader(item, i) ==
    <<[number |-> i, metric |-> ShownMetric(out_call.sort_by), seconds |-> Fixed6(KeyOf(item))]>>

\* C18 as stated: a query rendered with a position (console, single file)
\* begins with the header naming the position, the sort metric and the value
\* get_sort_key gives, an unrecognized metric counting as MaxDuration; a
\* query rendered without a position (one file per query) has no header.
C18_AsStated ==
    out_pc = "done" =>
        /\ out_call.fn = "print_queries_to_console" =>
            \A i \in 1..Len(QueriesOf(echoed)) :
                QueriesOf(echoed)[i].header = ClaimedHeader(QueriesOf(echoed)[i], i)
        /\ Single =>
            LET items == QueriesOf(disk.entries[out_call.output_file].content)
            IN  \A i \in 1..Len(items) : items[i].header = ClaimedHeader(items[i], i)
        /\ Multi =>
            \A n \in RegularFiles : \A k \in 1..Len(disk.entries[n].content) :
                disk.entries[n].content[k].header = <<>>

-----------------------------------------------------------------------------
(* C19: format_number_with_suffix *)

Returned == num_pc = "done"

Chars(t) == {t[i] : i \in 1..Len(t)}

\* the position in suffixes of the letter that ends the result, 0 without one
SuffixShown ==
    IF num_result # <<>> /\ num_result[Len(num_result)] \in {"k", "M", "G", "T", "P"}
    THEN (CHOOSE i \in 2..6 : suffixes[i] = num_result[Len(num_result)]) - 1
    ELSE 0

\* the digits printed after the point
DecimalsShown ==
    IF "." \in Chars(num_result)
    THEN Cardinality({i \in 1..Len(num_result) :
                        /\ num_result[i] \in {DigitChar(c) : c \in 0..9}
                        /\ \E j \in 1..(i - 1) : num_result[j] = "."})
    ELSE 0

RECURSIVE NumberOf(_)
NumberOf(t) ==
    IF t = <<>> THEN 0
    ELSE 10 * NumberOf(SubSeq(t, 1, Len(t) - 1))
         + (CHOOSE c \in 0..9 : DigitChar(c) = t[Len(t)])

\* the result read as a number of units of the last digit printed
UnitsShown == NumberOf(SelectSeq(num_result, LAMBDA c : c \in {DigitChar(k) : k \in 0..9}))

IsPositiveInteger(x) == x.r.d = 1 /\ x.r.n >= 1

\* k with 1000^k <= x < 1000^(k+1)
Bracket(x) ==
    IF x.e > 0 THEN x.e
    ELSE CHOOSE k \in 0..2 : Pow(1000, k) <= x.r.n /\ x.r.n < Pow(1000, k + 1)

\* the input divided by 1000^k
Remaining(x, k) ==
    IF x.e >= k THEN Plain([x EXCEPT !.e = @ - k])
    ELSE Rat(x.r.n, x.r.d * Pow(1000, k - x.e))

Examples ==
    <<  <<[r |-> Rat(5, 1), e |-> 0], <<"5", ".", "0", "0">> >>,
        <<[r |-> Rat(50, 1), e |-> 0], <<"5", "0", ".", "0">> >>,
        <<[r |-> Rat(500, 1), e |-> 0], <<"5", "0", "0">> >>,
        <<[r |-> Rat(1000, 1), e |-> 0], <<"1", ".", "0", "0", "k">> >>,
        <<[r |-> Rat(1, 1), e |-> 1], <<"1", ".", "0", "0", "k">> >>,
        <<[r |-> Rat(500, 1), e |-> 1], <<"5", "0", "0", "k">> >>,
        <<[r |-> Rat(1, 1), e |-> 2], <<"1", ".", "0", "0", "M">> >>,
        <<[r |-> Rat(1, 1), e |-> 3], <<"1", ".", "0", "0", "G">> >> >>

\* C19: format_number_with_suffix returns "0" for 0; an integer input in
\* [1000^k, 1000^(k+1)) with k in 0..4 gets the suffix at index k of
\* ['', 'k', 'M', 'G', 'T', 'P'] and an input of at least 1000^5 gets 'P';
\* the input divided by 1000 to the power of that index is printed with no
\* decimals if it is at least 100, one if it is at least 10 and two
\* otherwise, rounded to the last digit printed, and the suffix follows
\* without a space; the listed examples come out as listed.
C19_Suffixes ==
    Returned =>
        /\ IsZeroValue(num_input) => num_result = <<"0">>
        /\ ~IsZeroValue(num_input) /\ IsPositiveInteger(num_input) =>
            SuffixShown = IF Bracket(num_input) <= 4 THEN Bracket(num_input) ELSE 5
        /\ ~IsZeroValue(num_input) /\ num_input.r.d # 0 =>
            LET rem == Remaining(num_input, SuffixShown)
                dec == IF RLeq(Rat(100, 1), rem) THEN 0
                       ELSE IF RLeq(Rat(10, 1), rem) THEN 1 ELSE 2
            IN  /\ DecimalsShown = dec
                /\ 2 * Abs(UnitsShown * rem.d - Abs(rem.n) * Pow(10, dec)) <= rem.d
                /\ " " \notin Chars(num_result)
                /\ Len(num_result) = Len(Digits(UnitsShown \div Pow(10, dec)))
                                     + (IF dec > 0 THEN dec + 1 ELSE 0)
                                     + (IF SuffixShown > 0 THEN 1 ELSE 0)
                                     + (IF rem.n < 0 THEN 1 ELSE 0)
        /\ \A i \in 1..Len(Examples) :
            num_input = Examples[i][1] => num_result = Examples[i][2]

\* an input of at least 1000^6 has used the last suffix and is still 1000 or more
C19_Witness ==
    /\ Returned
    /\ num_input.r.d # 0 /\ num_input.e = 6
    /\ SuffixShown = 5
    /\ DecimalsShown = 0
    /\ AtLeast1000(value)

-----------------------------------------------------------------------------
(* C20: process_files and the files that fail to load *)

\* the positions among the first n files whose loading raises, in order
RECURSIVE FailedAmong(_, _)
FailedAmong(fs, n) ==
    IF n = 0 THEN <<>>
    ELSE FailedAmong(fs, n - 1) \o (IF fs[n].ok THEN <<>> ELSE <<n>>)

\* the rows of the first n files, leaving out those whose loading raises
RECURSIVE RowsAmong(_, _)
RowsAmong(fs, n) ==
    IF n = 0 THEN <<>>
    ELSE RowsAmong(fs, n - 1) \o (IF fs[n].ok THEN fs[n].table.rows ELSE <<>>)

\* C20: in process_files every file whose loading raises is reported with
\* its path and contributes no rows; every other file is loaded, and the
\* rows of the loaded files stand in all_data in the order the files were
\* given, all of them before filtering starts.
C20_LoadErrors ==
    /\ file_idx \in 1..(Len(file_paths) + 1)
    /\ errors = FailedAmong(file_paths, file_idx - 1)
    /\ all_data.rows = RowsAmong(file_paths, file_idx - 1)
    /\ stage # "load" => file_idx = Len(file_paths) + 1

\* loading is over: the first file raised and the file after it was loaded
C20_Witness ==
    /\ stage # "load"
    /\ Len(file_paths) >= 2
    /\ ~file_paths[1].ok
    /\ file_paths[2].ok /\ file_paths[2].table.rows # <<>>
    /\ errors = <<1>>
    /\ all_data.rows = file_paths[2].table.rows

-----------------------------------------------------------------------------
(* C21: process_files when nothing is loaded or nothing passes the filters *)

\* process_files has echoed "No data found ..." or "No queries matched ..." and returned
EndedEmpty == stage \in {"no_data", "no_match"}

\* C21: if no rows are loaded from any file, or no rows pass the filters,
\* process_files reports it and returns: it does not raise, computes no
\* statistics, prints no query block and writes no file or directory, and
\* it takes no further step.  It goes on to filtering only with rows
\* loaded, and to the statistics only with rows that passed the filters.
C21_EmptyResult ==
    /\ [](/\ EndedEmpty =>
                /\ query_stats = <<>>
                /\ console = <<>>
                /\ disk = [exists |-> FALSE, entries |-> <<>>]
                /\ pc = "idle" /\ unique_queries = <<>>
          /\ stage = "no_data" => all_data.rows = <<>> /\ filtered_data = EmptyFrame
          /\ stage = "no_match" => all_data.rows # <<>> /\ filtered_data.rows = <<>>
          /\ stage \in {"filtered", "raised", "no_match", "stats", "done"} => all_data.rows # <<>>
          /\ stage \in {"stats", "done"} => filtered_data.rows # <<>>)
    /\ [][~EndedEmpty]_vars

\* rows were loaded and the filters let none of them pass
C21_Witness ==
    /\ stage = "no_match"
    /\ Len(all_data.rows) >= 2
    /\ like_filters # <<>>
    /\ query_stats = <<>>
    /\ console = <<>>

-----------------------------------------------------------------------------
(* C22: the output mode chosen by the command line *)

BothGivenAsked == output.some /\ output_dir.some

-----------------------------------------------------------------------------
(* C23: the order of the rows *)

Texts(stats) == {stats[k].query_text : k \in 1..Len(stats)}

\* the statistics of query text q in the result stats
At(stats, q) == stats[CHOOSE k \in 1..Len(stats) : stats[k].query_text = q]

-----------------------------------------------------------------------------
(* C24: aggregation in two parts *)

\* the accumulators of q in stats, freshly initialised when q is absent
Accumulators(stats, q) ==
    IF q \in Texts(stats) THEN At(stats, q)
    ELSE [query_text |-> q, row_count |-> 0, total_count |-> 0,
          metrics |-> [m \in Metrics |-> [min |-> Inf, max |-> Zero, sum |-> 0, total_count |-> 0]]]

\* the least (greatest) of two numbers
Least(a, b) == IF a.n * b.d <= b.n * a.d THEN a ELSE b

Greatest(a, b) == IF a.n * b.d >= b.n * a.d THEN a ELSE b

-----------------------------------------------------------------------------
(* C26: rows without a value *)

\* the row at idx is fed to the statistics of its query in this step
FeedsRow ==
    /\ pc = "iterate" /\ pc' = "iterate"
    /\ idx' = idx + 1
    /\ ~SkipRow(df.rows[idx])

\* column c is absent from the input, or null in its row r
AbsentOrNull(r, c) == c \notin input.cols \/ IsNa(input.rows[r][c])

\* C26 as stated: when a row is aggregated, a Min<X> that is absent or null
\* leaves the metric's min as it was, likewise Max<X> and max, Sum<X> and
\* sum, and the row's weight is added to the metric's total count.
C26_AsStated ==
    [][FeedsRow =>
        LET q == df.rows[idx][QueryTextCol].s
            before == Accumulators(unique_queries, q)
            after == At(unique_queries', q)
        IN  \A m \in Metrics :
                /\ AbsentOrNull(idx, Col("Min", m)) => after.metrics[m].min = before.metrics[m].min
                /\ AbsentOrNull(idx, Col("Max", m)) => after.metrics[m].max = before.metrics[m].max
                /\ AbsentOrNull(idx, Col("Sum", m)) => after.metrics[m].sum = before.metrics[m].sum
                /\ after.metrics[m].total_count
                        = before.metrics[m].total_count + CountValue(df.rows[idx])]_vars

-----------------------------------------------------------------------------
(* C27: min never rises, max never falls *)

\* C27: in every step, for every query, min is at most what it was and max
\* at least what it was, a query met for the first time counting as freshly
\* initialised; a step that calls update_from_row raises the row_count of
\* its query by exactly 1 and leaves every other query as it was.
C27_Monotonic ==
    [][\A q \in Texts(unique_queries') :
            LET before == Accumulators(unique_queries, q)
                after == At(unique_queries', q)
            IN  /\ \A m \in Metrics :
                    /\ RLeq(after.metrics[m].min, before.metrics[m].min)
                    /\ RLeq(before.metrics[m].max, after.metrics[m].max)
                /\ IF pc = "iterate" /\ idx <= Len(df.rows) /\ ~SkipRow(df.rows[idx])
                      /\ q = df.rows[idx][QueryTextCol].s
                   THEN after.row_count = before.row_count + 1
                   ELSE after = before]_vars

\* the second row of a query has lowered its min and raised its max
C27_Witness ==
    /\ pc = "iterate"
    /\ idx = 3
    /\ Len(unique_queries) = 1
    /\ unique_queries[1].row_count = 2
    /\ \E m \in Metrics :
        /\ {Col("Min", m), Col("Max", m)} \subseteq df.cols
        /\ \A r \in 1..2 : df.rows[r][Col("Min", m)].v > 0 /\ df.rows[r][Col("Max", m)].v > 0
        /\ df.rows[2][Col("Min", m)].v < df.rows[1][Col("Min", m)].v
        /\ df.rows[2][Col("Max", m)].v > df.rows[1][Col("Max", m)].v
        /\ ~RLeq(unique_queries[1].metrics[m].max, unique_queries[1].metrics[m].min)

-----------------------------------------------------------------------------
(* C29: a header row among the data *)

\* row r of the table d is a header row among the data: its CPUTime is the
\* string 'CPUTime'
ReEmbeddedHeader(d, r) == CPUTimeCol \in d.cols /\ d.rows[r][CPUTimeCol] = Str(CPUTimeText)

DataRows(d) == {r \in 1..Len(d.rows) : ~ReEmbeddedHeader(d, r)}

\* C29 as stated: the transform removes every row whose CPUTime is the
\* string 'CPUTime' before it converts the values, so the table it returns
\* has one row for each other row of the source and none for a header row.
C29_AsStated ==
    (load_pc = "done" /\ file_format = "top_queries" /\ CPUTimeCol \in sample_df.cols)
        => Len(result_df.rows) = Cardinality(DataRows(sample_df))

-----------------------------------------------------------------------------
(* C30: the statistics of transformed rows *)

\* the transform has returned rows with a Series behind every metric
Transformed ==
    /\ load_pc = "done"
    /\ file_format = "top_queries"

-----------------------------------------------------------------------------
(* C28: the encodings load_tsv_file tries *)

\* the detected encoding, then the fallbacks other than it, in their order
ExpectedAttempts == <<bom>> \o SelectSeq(fallback_encodings, LAMBDA e : e # bom)

\* C28: the attempts are a prefix of the detected encoding followed by
\* utf-8, utf-16le, utf-16be, latin1 without the detected one, so no
\* encoding is tried twice; an attempt is made only after every earlier one
\* has failed; the call returns the result of the first attempt that
\* succeeds; and once every attempt has failed it raises the error of the
\* first attempt.
C28_Attempts ==
    /\ Len(attempts) <= Len(ExpectedAttempts)
    /\ attempts = SubSeq(ExpectedAttempts, 1, Len(attempts))
    /\ \A i, j \in 1..Len(attempts) : i # j => attempts[i] # attempts[j]
    /\ \A i \in 1..(Len(attempts) - 1) : attempts[i] \notin loads_under
    /\ returned # "None" =>
        /\ enc_pc = "returned"
        /\ returned = attempts[Len(attempts)]
        /\ returned \in loads_under
    /\ (enc_pc = "raised" /\ attempts # <<>>) =>
        /\ attempts = ExpectedAttempts
        /\ \A i \in 1..Len(attempts) : attempts[i] \notin loads_under
        /\ raised = attempts[1]
        /\ raised = bom
    /\ (enc_pc \in {"returned", "raised"} /\ bom # "OSError") =>
        (returned # "None") = (\E i \in 1..Len(ExpectedAttempts) : ExpectedAttempts[i] \in loads_under)

\* a file with a UTF-8 byte order mark that loads under no encoding: five
\* attempts, utf-8 among them, and the error of the utf-8-sig attempt raised
C28_Witness ==
    /\ enc_pc = "raised"
    /\ attempts = <<"utf-8-sig", "utf-8", "utf-16le", "utf-16be", "latin1">>
    /\ raised = "utf-8-sig"

-----------------------------------------------------------------------------
(* C25: the fields of a returned row *)

\* detect_and_load_file has returned a table with rows
FileReturned == load_pc = "done" /\ raw # EmptyFrame /\ result_df.rows # <<>>

\* C25 as stated: every row detect_and_load_file returns, for either format
\* and with or without a header line, has the eighteen Min/Max/Sum fields of
\* the six metrics and Count, QueryText, Rank and IntervalEnd.
C25_AsStated == FileReturned => TransformedCols \subseteq result_df.cols

====
